---- MODULE Spec2Model ----
(***************************************************************************)
(* A model of the lonai research assistant: the memoizing SearchTool, the  *)
(* StorageManager's directory of JSON records, the ReportExporter and its  *)
(* markdown-to-HTML conversion, ResearchAgent.research / batch_research    *)
(* on top of them, the Settings loader, the choice of the chat model, and  *)
(* the research command of the CLI.                                        *)
(*                                                                         *)
(* Python strings are sequences of one-character strings, so that string   *)
(* formatting, sanitising and truncation are computed, not assumed.        *)
(* Optional[int] is <<>> (None) or <<n>>.                                  *)
(***************************************************************************)
EXTENDS Integers, Sequences, FiniteSets, TLC

VARIABLES
    cache,      \* SearchTool._cache: cache key -> result
    apiCalls,   \* number of TavilyClient.search calls made so far
    sret,       \* the last SearchTool call: its arguments and what it returned
    obtained,   \* history: argument tuple -> first result the API returned for it since the last clear_cache
    now,        \* the clock, in ticks
    files,      \* the storage directory: file name -> [content, mtime]
    reports,    \* the report directory: file name -> [whole, doc, mtime]
    exportFormat, \* Settings.export_default_format
    sop,        \* the last call a client made to the StorageManager, and what it returned
    lastSave,   \* history: the most recent save_research call a client made
    nRecords,   \* history: number of research() calls that saved and returned
    out,        \* the last research() call and what it returned
    bpc,        \* batch_research: position in its loop
    bqueries,   \* batch_research: its queries argument
    bsave,      \* batch_research: its save_results argument
    bresults,   \* batch_research: its results list
    blog,       \* history: for each query batch_research processed, whether research raised
    messages,   \* response extraction: the message list returned by the agent
    response,   \* response extraction: the extracted response
    epc,        \* response extraction: position
    settings,   \* the Settings an agent is constructed from
    configFile, \* Settings.from_yaml: the parsed config.yaml, or that there is none
    environ,    \* os.environ: variable name -> value
    loaded,     \* Settings.from_yaml: the Settings it returned
    model,      \* _configure_model: the chat model it built
    cli,        \* the research command: its position, its query, its exit code and the calls it made
    chat,       \* the chat command: its position, its last iteration and the research calls it made
    shown,      \* the config command: the keys of the settings and the values it displayed
    xop,        \* the last export call a client made to the ReportExporter, and what it returned
    markdown,   \* _export_html: the content argument
    html_content \* _export_html: the converted content

searchVars == <<cache, apiCalls, sret, obtained>>
storeVars == <<now, files, sop, lastSave>>
agentVars == <<reports, exportFormat, nRecords, out, bpc, bqueries, bsave, bresults, blog>>
extractVars == <<messages, response, epc>>
configVars == <<settings, configFile, environ, loaded, model>>
cliVars == <<cli, chat, shown>>
exportVars == <<xop, markdown, html_content>>
vars == <<cache, apiCalls, sret, obtained, now, files, reports, exportFormat, sop, lastSave, nRecords, out, bpc, bqueries, bsave, bresults, blog, messages, response, epc, settings, configFile, environ, loaded, model, cli, chat, shown, xop, markdown, html_content>>

---------------------------------------------------------------------------
(* Bounds *)

\* TavilyClient.search calls in one run
MaxApiCalls == 3

\* clock ticks in one second: two calls can fall into the same second at
\* different instants
TicksPerSecond == 2

\* the last clock tick of a run
MaxTime == 3

\* files in the storage directory
MaxFiles == 3

\* research() calls in one run
MaxResearch == 1

\* queries in one batch_research call
MaxBatch == 3

\* tokens in a content given to the HTML conversion
MaxTokens == 4

\* messages in the list the agent returns
MaxMessages == 3

---------------------------------------------------------------------------
(* Python values and string formatting *)

None == <<>>

Some(n) == <<n>>

Digits == <<"0", "1", "2", "3", "4", "5", "6", "7", "8", "9">>

RECURSIVE StrInt(_)
\* str(n) for a natural number n, as f"{n}" formats it
StrInt(n) == IF n < 10 THEN <<Digits[n + 1]>> ELSE StrInt(n \div 10) \o <<Digits[(n % 10) + 1]>>

\* f"{max_results}" for an Optional[int]
StrOptInt(m) == IF m = None THEN <<"N", "o", "n", "e">> ELSE StrInt(m[1])

\* f"{include_raw_content}" for a bool
StrBool(b) == IF b THEN <<"T", "r", "u", "e">> ELSE <<"F", "a", "l", "s", "e">>

Colon == <<":">>

TopicGeneral == <<"g", "e", "n", "e", "r", "a", "l">>

TopicNews == <<"n", "e", "w", "s">>

TopicFinance == <<"f", "i", "n", "a", "n", "c", "e">>

---------------------------------------------------------------------------
(* SearchTool *)

\* SearchTool.max_results, from Settings.search_max_results
DefaultMaxResults == 5

QueryA == <<"a">>

\* a query that contains the separator of the cache key
QueryANews == <<"a", ":", "n", "e", "w", "s">>

SearchCallArgs(query, max_results, topic, include_raw_content) == [query |-> query, max_results |-> max_results, topic |-> topic, include_raw_content |-> include_raw_content]

\* the argument tuples given to search: one tuple, the four that differ from
\* it in one argument, and one that differs from it in all four
SearchArgs ==
    {SearchCallArgs(QueryA, None, TopicGeneral, FALSE),
     SearchCallArgs(QueryANews, None, TopicGeneral, FALSE),
     SearchCallArgs(QueryA, None, TopicNews, FALSE),
     SearchCallArgs(QueryA, Some(5), TopicGeneral, FALSE),
     SearchCallArgs(QueryA, None, TopicGeneral, TRUE),
     SearchCallArgs(QueryANews, Some(5), TopicNews, TRUE)}

\* what TavilyClient.search can do: raise, or return a response; a response
\* is well formed when results.get('results', []) has a length
ApiResponses == {[kind |-> "api", id |-> 1, wellformed |-> TRUE], [kind |-> "api", id |-> 2, wellformed |-> TRUE], [kind |-> "api", id |-> 3, wellformed |-> FALSE]}

ApiOutcomes == {[raised |-> TRUE, value |-> [kind |-> "none"], error |-> "api error"]} \cup {[raised |-> FALSE, value |-> r, error |-> ""] : r \in ApiResponses}

NoResult == [kind |-> "none"]

CacheKeyNoTopic(query, topic, max_results, include_raw_content) == query \o Colon \o StrOptInt(max_results) \o Colon \o StrBool(include_raw_content)

\* cache_key = f"{query}:{topic}:{max_results}:{include_raw_content}"
CacheKey(query, topic, max_results, include_raw_content) == query \o Colon \o topic \o Colon \o StrOptInt(max_results) \o Colon \o StrBool(include_raw_content)

KeyOf(a) == CacheKey(a.query, a.topic, a.max_results, a.include_raw_content)

CacheStoreEvict(c, key, results) == [k \in {key} |-> results]

\* self._cache[cache_key] = results
CacheStore(c, key, results) == [k \in DOMAIN c \cup {key} |-> IF k = key THEN results ELSE c[k]]

\* max_results or self.max_results
EffectiveMax(m) == IF m = None \/ m = Some(0) THEN DefaultMaxResults ELSE m[1]

ErrorResultRaise(query, error) == [kind |-> "raise", query |-> query, results |-> <<>>, error |-> error]

\* the except branch: {"query": query, "results": [], "error": str(e)}
ErrorResult(query, error) == [kind |-> "error", query |-> query, results |-> <<>>, error |-> error]

\* the number of client.search calls search makes on a cache miss
ApiAttempts(outcome) == 1

SearchCallStoresError(c, a, outcome) ==
    LET key == KeyOf(a)
        sent == [query |-> a.query, max_results |-> EffectiveMax(a.max_results), topic |-> a.topic, include_raw_content |-> a.include_raw_content]
    IN  IF key \in DOMAIN c
        THEN [cache |-> c, ret |-> c[key], calls |-> 0, sent |-> <<>>]
        ELSE IF outcome.raised
        THEN [cache |-> CacheStore(c, key, ErrorResult(a.query, outcome.error)), ret |-> ErrorResult(a.query, outcome.error), calls |-> ApiAttempts(outcome), sent |-> <<sent>>]
        ELSE [cache |-> CacheStore(c, key, outcome.value), ret |-> outcome.value, calls |-> ApiAttempts(outcome), sent |-> <<sent>>]

\* search(query, max_results, topic, include_raw_content) on cache c, when
\* the API answers with outcome: the new cache, the value returned, the
\* number of API calls made and the arguments sent to the API
SearchCall(c, a, outcome) ==
    LET key == KeyOf(a)
        sent == [query |-> a.query, max_results |-> EffectiveMax(a.max_results), topic |-> a.topic, include_raw_content |-> a.include_raw_content]
    IN  IF key \in DOMAIN c
        THEN [cache |-> c, ret |-> c[key], calls |-> 0, sent |-> <<>>]
        ELSE IF outcome.raised
        THEN [cache |-> c, ret |-> ErrorResult(a.query, outcome.error), calls |-> ApiAttempts(outcome), sent |-> <<sent>>]
        ELSE IF ~outcome.value.wellformed
        THEN [cache |-> CacheStore(c, key, outcome.value), ret |-> ErrorResult(a.query, "log error"), calls |-> ApiAttempts(outcome), sent |-> <<sent>>]
        ELSE [cache |-> CacheStore(c, key, outcome.value), ret |-> outcome.value, calls |-> ApiAttempts(outcome), sent |-> <<sent>>]

\* dropped is history: the argument tuples whose entries clear_cache removed
NoCall == [op |-> "init", args |-> <<>>, ret |-> NoResult, calls |-> 0, sent |-> <<>>, hit |-> FALSE, known |-> FALSE, prior |-> NoResult, outcome |-> <<>>, dropped |-> {}]

Search(a, outcome) ==
    /\ KeyOf(a) \in DOMAIN cache \/ apiCalls < MaxApiCalls
    /\ LET r == SearchCall(cache, a, outcome)
       IN  /\ cache' = r.cache
           /\ apiCalls' = apiCalls + r.calls
           /\ sret' = [op |-> "search", args |-> <<a>>, ret |-> r.ret, calls |-> r.calls, sent |-> r.sent,
                       hit |-> KeyOf(a) \in DOMAIN cache,
                       known |-> a \in DOMAIN obtained,
                       prior |-> IF a \in DOMAIN obtained THEN obtained[a] ELSE NoResult,
                       outcome |-> IF KeyOf(a) \in DOMAIN cache THEN <<>> ELSE <<outcome>>,
                       dropped |-> sret.dropped]
           /\ obtained' = IF KeyOf(a) \notin DOMAIN cache /\ ~outcome.raised /\ a \notin DOMAIN obtained
                          THEN [x \in DOMAIN obtained \cup {a} |-> IF x = a THEN outcome.value ELSE obtained[x]]
                          ELSE obtained
    /\ UNCHANGED <<storeVars, agentVars, extractVars, configVars, cliVars, exportVars>>

ClearCacheKeeps ==
    /\ cache' = cache
    /\ sret' = [NoCall EXCEPT !.op = "clear", !.dropped = sret.dropped \cup {a \in SearchArgs : KeyOf(a) \in DOMAIN cache}]
    /\ obtained' = <<>>
    /\ UNCHANGED <<apiCalls, storeVars, agentVars, extractVars, configVars, cliVars, exportVars>>

\* clear_cache()
ClearCache ==
    /\ cache' = <<>>
    /\ sret' = [NoCall EXCEPT !.op = "clear", !.dropped = sret.dropped \cup {a \in SearchArgs : KeyOf(a) \in DOMAIN cache}]
    /\ obtained' = <<>>
    /\ UNCHANGED <<apiCalls, storeVars, agentVars, extractVars, configVars, cliVars, exportVars>>

---------------------------------------------------------------------------
(* Python values and json *)

PyStr(s) == [py |-> "str", v |-> s]

PyInt(n) == [py |-> "int", v |-> n]

PyNone == [py |-> "None"]

PyList(s) == [py |-> "list", v |-> s]

PyTuple(s) == [py |-> "tuple", v |-> s]

\* a dict: a function from its keys to its values
PyDict(f) == [py |-> "dict", v |-> f]

\* a set, which json.dump rejects
PySet == [py |-> "set"]

EmptyDict == PyDict(<<>>)

\* d.get(key, default) for a value d; raises (here: "raise") when d is no dict
Get(d, key, default) == IF d.py # "dict" THEN "raise" ELSE IF PyStr(key) \in DOMAIN d.v THEN d.v[PyStr(key)] ELSE default

RECURSIVE Serializable(_)
\* whether json.dump accepts x: str, int, None, list, tuple, and dict with
\* str or int keys, of such values
Serializable(x) ==
    CASE x.py \in {"str", "int", "None"} -> TRUE
      [] x.py \in {"list", "tuple"} -> \A i \in 1..Len(x.v) : Serializable(x.v[i])
      [] x.py = "dict" -> \A k \in DOMAIN x.v : k.py \in {"str", "int"} /\ Serializable(x.v[k])
      [] OTHER -> FALSE

\* the JSON object key json.dump writes for a dict key: a str as it is, an
\* int as its decimal digits
JsonKey(k) == IF k.py = "str" THEN k.v ELSE StrInt(k.v)

RECURSIVE JsonDump(_)
\* the JSON document json.dump writes for a serializable x; a tuple is
\* written as an array like a list
JsonDump(x) ==
    CASE x.py = "str" -> [js |-> "string", v |-> x.v]
      [] x.py = "int" -> [js |-> "number", v |-> x.v]
      [] x.py = "None" -> [js |-> "null"]
      [] x.py \in {"list", "tuple"} -> [js |-> "array", v |-> [i \in 1..Len(x.v) |-> JsonDump(x.v[i])]]
      [] x.py = "dict" -> [js |-> "object", v |-> [n \in {JsonKey(k) : k \in DOMAIN x.v} |-> JsonDump(x.v[CHOOSE k \in DOMAIN x.v : JsonKey(k) = n])]]

RECURSIVE JsonLoad(_)
\* the value json.load builds from a JSON document: an array becomes a
\* list, an object a dict with str keys
JsonLoad(j) ==
    CASE j.js = "string" -> PyStr(j.v)
      [] j.js = "number" -> PyInt(j.v)
      [] j.js = "null" -> PyNone
      [] j.js = "array" -> PyList([i \in 1..Len(j.v) |-> JsonLoad(j.v[i])])
      [] j.js = "object" -> PyDict([k \in {PyStr(n) : n \in DOMAIN j.v} |-> JsonLoad(j.v[k.v])])

---------------------------------------------------------------------------
(* File names *)

\* the ASCII characters for which str.isalnum() holds
AlnumChars == {"a", "b", "c", "d", "e", "f", "g", "h", "i", "j", "k", "l", "m", "n", "o", "p", "q", "r", "s", "t", "u", "v", "w", "x", "y", "z"} \cup {"A", "B", "C", "D", "E", "F", "G", "H", "I", "J", "K", "L", "M", "N", "O", "P", "Q", "R", "S", "T", "U", "V", "W", "X", "Y", "Z"} \cup {Digits[i] : i \in 1..10}

\* the length a sanitised query or title is cut to
MaxNameLen == 50

\* c if c.isalnum() or c in (' ', '_') else '_'
SafeChar(c) == IF c \in AlnumChars \/ c \in {" ", "_"} THEN c ELSE "_"

\* s[:n]
Prefix(s, n) == SubSeq(s, 1, IF Len(s) < n THEN Len(s) ELSE n)

\* "".join(c if c.isalnum() or c in (' ', '_') else '_' for c in text).replace(' ', '_')[:50]
SafeName(text) == Prefix([i \in 1..Len(text) |-> IF SafeChar(text[i]) = " " THEN "_" ELSE SafeChar(text[i])], MaxNameLen)

TwoDigits(n) == <<Digits[(n \div 10) + 1], Digits[(n % 10) + 1]>>

\* datetime.now().strftime("%Y%m%d_%H%M%S") at second sec of the day the run is on
Timestamp(sec) == <<"2", "0", "2", "6", "0", "1", "0", "1", "_">> \o TwoDigits(sec \div 3600) \o TwoDigits((sec \div 60) % 60) \o TwoDigits(sec % 60)

\* the second a clock tick lies in
Second(t) == t \div TicksPerSecond

\* datetime.now().isoformat(), which resolves single ticks
IsoFormat(t) == StrInt(t)

SuffixJson == <<".", "j", "s", "o", "n">>

\* f"{timestamp}_{safe_query}.json"
RecordName(timestamp, safe_query) == timestamp \o <<"_">> \o safe_query \o SuffixJson

---------------------------------------------------------------------------
(* StorageManager *)

MetadataKept(metadata) == metadata

\* metadata or {}
MetadataOrEmpty(metadata) == IF metadata = PyNone \/ metadata = EmptyDict THEN EmptyDict ELSE metadata

KeyQuery == <<"q", "u", "e", "r", "y">>

KeyTimestamp == <<"t", "i", "m", "e", "s", "t", "a", "m", "p">>

KeyResults == <<"r", "e", "s", "u", "l", "t", "s">>

KeyMetadata == <<"m", "e", "t", "a", "d", "a", "t", "a">>

\* data = {"query": query, "timestamp": datetime.now().isoformat(), "results": results, "metadata": metadata or {}}
RecordData(query, t, results, metadata) ==
    PyDict([k \in {PyStr(KeyQuery), PyStr(KeyTimestamp), PyStr(KeyResults), PyStr(KeyMetadata)} |->
        CASE k.v = KeyQuery -> PyStr(query)
          [] k.v = KeyTimestamp -> PyStr(IsoFormat(t))
          [] k.v = KeyResults -> results
          [] k.v = KeyMetadata -> MetadataOrEmpty(metadata)])

\* a file whose text is a whole JSON document
WholeFile(doc, t) == [whole |-> TRUE, doc |-> doc, mtime |-> t]

\* a file that open(filepath, 'w') created and json.dump left unfinished
CutFile(t) == [whole |-> FALSE, doc |-> [js |-> "null"], mtime |-> t]

WriteFile(fs, name, file) == [n \in DOMAIN fs \cup {name} |-> IF n = name THEN file ELSE fs[n]]

\* the file name save_research chooses at tick t
SaveName(query, t) == RecordName(Timestamp(Second(t)), SafeName(query))

\* save_research(query, results, metadata) at tick t on directory fs: the
\* new directory, the name of the file, and whether the call raised
SaveResearchCall(fs, t, query, results, metadata) ==
    LET name == SaveName(query, t)
        data == RecordData(query, t, results, metadata)
    IN  IF Serializable(data)
        THEN [files |-> WriteFile(fs, name, WholeFile(JsonDump(data), t)), name |-> name, raised |-> FALSE]
        ELSE [files |-> WriteFile(fs, name, CutFile(t)), name |-> name, raised |-> TRUE]

\* load_research(filename) on directory fs
LoadResearchCall(fs, filename) ==
    IF filename \notin DOMAIN fs THEN PyNone
    ELSE IF ~fs[filename].whole THEN PyNone
    ELSE JsonLoad(fs[filename].doc)

NoOp == [op |-> "init", arg |-> <<>>, ret |-> <<>>, raised |-> FALSE]

SaveResearch(query, results, metadata) ==
    /\ SaveName(query, now) \in DOMAIN files \/ Cardinality(DOMAIN files) < MaxFiles
    /\ LET r == SaveResearchCall(files, now, query, results, metadata)
       IN  /\ files' = r.files
           /\ sop' = [op |-> "save", arg |-> query, ret |-> r.name, raised |-> r.raised]
           /\ lastSave' = <<[name |-> r.name, query |-> query, results |-> results, metadata |-> metadata, raised |-> r.raised]>>
    /\ UNCHANGED <<now, searchVars, agentVars, extractVars, configVars, cliVars, exportVars>>

LoadResearch(filename) ==
    /\ sop' = [op |-> "load", arg |-> filename, ret |-> LoadResearchCall(files, filename), raised |-> FALSE]
    /\ UNCHANGED <<now, files, lastSave, searchVars, agentVars, extractVars, configVars, cliVars, exportVars>>

\* the clock advances
Tick ==
    /\ now < MaxTime
    /\ now' = now + 1
    /\ UNCHANGED <<files, sop, lastSave, searchVars, agentVars, extractVars, configVars, cliVars, exportVars>>

\* debug_last_result.txt, which research() writes into the storage directory
DebugName == <<"d", "e", "b", "u", "g", "_", "l", "a", "s", "t", "_", "r", "e", "s", "u", "l", "t", ".", "t", "x", "t">>

\* whether a file name matches the pattern *.json
IsJsonName(name) == Len(name) >= Len(SuffixJson) /\ SubSeq(name, Len(name) - Len(SuffixJson) + 1, Len(name)) = SuffixJson

\* self.data_dir.glob("*.json")
Glob(fs) == [n \in {m \in DOMAIN fs : IsJsonName(m)} |-> fs[n]]

RECURSIVE Perms(_)
\* the orders a set of names can be put in
Perms(S) == IF S = {} THEN {<<>>} ELSE UNION {{<<x>> \o p : p \in Perms(S \ {x})} : x \in S}

ByMtimeAsc(fs) == {order \in Perms(DOMAIN fs) : \A i \in 1..(Len(order) - 1) : fs[order[i]].mtime <= fs[order[i + 1]].mtime}

\* sorted(self.data_dir.glob("*.json"), key=st_mtime, reverse=True): the
\* orders the sort can produce; files with equal mtime come in glob's order
ByMtimeDesc(fs) == {order \in Perms(DOMAIN fs) : \A i \in 1..(Len(order) - 1) : fs[order[i]].mtime >= fs[order[i + 1]].mtime}

\* the test `if limit:` on an Optional[int]
Truthy(limit) == limit # None /\ limit[1] # 0

\* files[:n] for any integer n
Slice(s, n) == IF n >= 0 THEN Prefix(s, n) ELSE Prefix(s, IF Len(s) + n < 0 THEN 0 ELSE Len(s) + n)

DataDir == <<"d", "/">>

\* whether the body of list_research's loop reads a file without raising
Readable(fs, name) == fs[name].whole /\ JsonLoad(fs[name].doc).py = "dict"

\* the entry list_research appends for a readable file
Entry(fs, name) ==
    LET data == JsonLoad(fs[name].doc)
    IN  [filename |-> name, query |-> Get(data, KeyQuery, PyStr(<<>>)), timestamp |-> Get(data, KeyTimestamp, PyStr(<<>>)), path |-> DataDir \o name]

Kept(fs, names) == SelectSeq(names, LAMBDA n : Readable(fs, n))

\* list_research(limit) on directory fs, when the sort produced order
ListResearchCall(fs, order, limit) ==
    LET cut == IF Truthy(limit) THEN Slice(order, limit[1]) ELSE order
        kept == Kept(fs, cut)
    IN  [i \in 1..Len(kept) |-> Entry(fs, kept[i])]

\* the orders list_research sorts the files of the directory into
SortOrders(fs) == ByMtimeDesc(fs)

ListResearch(limit) ==
    /\ \E order \in SortOrders(Glob(files)) :
          sop' = [op |-> "list", arg |-> limit, ret |-> ListResearchCall(files, order, limit), raised |-> FALSE]
    /\ UNCHANGED <<now, files, lastSave, searchVars, agentVars, extractVars, configVars, cliVars, exportVars>>

DeleteResearchCallKeeps(fs, filename) == [files |-> fs, ret |-> filename \in DOMAIN fs, raised |-> FALSE]

\* delete_research(filename) on directory fs: the new directory, the value
\* returned, and whether the call raised
DeleteResearchCall(fs, filename) ==
    IF filename \in DOMAIN fs
    THEN [files |-> [n \in DOMAIN fs \ {filename} |-> fs[n]], ret |-> TRUE, raised |-> FALSE]
    ELSE [files |-> fs, ret |-> FALSE, raised |-> FALSE]

DeleteResearch(filename) ==
    /\ files' = DeleteResearchCall(files, filename).files
    /\ sop' = [op |-> "delete", arg |-> filename, ret |-> DeleteResearchCall(files, filename).ret, raised |-> DeleteResearchCall(files, filename).raised]
    /\ UNCHANGED <<now, lastSave, searchVars, agentVars, extractVars, configVars, cliVars, exportVars>>

---------------------------------------------------------------------------
(* Python strings *)

StartsWith(s, p) == Len(s) >= Len(p) /\ SubSeq(s, 1, Len(p)) = p

EndsWith(s, p) == Len(s) >= Len(p) /\ SubSeq(s, Len(s) - Len(p) + 1, Len(s)) = p

\* the positions at which p occurs in s
Occurrences(s, p) == {i \in 1..(Len(s) - Len(p) + 1) : SubSeq(s, i, i + Len(p) - 1) = p}

\* s.find(p) + 1: the first position at which p occurs in s, 0 when it does not
Find(s, p) == IF Occurrences(s, p) = {} THEN 0 ELSE CHOOSE i \in Occurrences(s, p) : \A j \in Occurrences(s, p) : i <= j

\* p in s
Contains(s, p) == Find(s, p) # 0

RECURSIVE Replace(_, _, _, _)
\* s.replace(old, new, count) for a non-empty old: the first count
\* occurrences from the left, all of them when count is -1
Replace(s, old, new, count) ==
    IF count = 0 \/ Find(s, old) = 0 THEN s
    ELSE SubSeq(s, 1, Find(s, old) - 1) \o new \o Replace(SubSeq(s, Find(s, old) + Len(old), Len(s)), old, new, IF count = -1 THEN -1 ELSE count - 1)

RECURSIVE Split(_, _)
\* s.split(sep)
Split(s, sep) ==
    IF Find(s, sep) = 0 THEN <<s>>
    ELSE <<SubSeq(s, 1, Find(s, sep) - 1)>> \o Split(SubSeq(s, Find(s, sep) + Len(sep), Len(s)), sep)

RECURSIVE Join(_, _)
\* sep.join(parts)
Join(parts, sep) ==
    IF parts = <<>> THEN <<>>
    ELSE IF Len(parts) = 1 THEN parts[1]
    ELSE parts[1] \o sep \o Join(Tail(parts), sep)

Whitespace == {" ", "\n"}

RECURSIVE LStrip(_)
LStrip(s) == IF s # <<>> /\ s[1] \in Whitespace THEN LStrip(Tail(s)) ELSE s

RECURSIVE RStrip(_)
RStrip(s) == IF s # <<>> /\ s[Len(s)] \in Whitespace THEN RStrip(SubSeq(s, 1, Len(s) - 1)) ELSE s

\* s.strip()
Strip(s) == RStrip(LStrip(s))

LowerLetters == <<"a", "b", "c", "d", "e", "f", "g", "h", "i", "j", "k", "l", "m", "n", "o", "p", "q", "r", "s", "t", "u", "v", "w", "x", "y", "z">>

UpperLetters == <<"A", "B", "C", "D", "E", "F", "G", "H", "I", "J", "K", "L", "M", "N", "O", "P", "Q", "R", "S", "T", "U", "V", "W", "X", "Y", "Z">>

IsLetter(c) == \E i \in 1..Len(LowerLetters) : c = LowerLetters[i] \/ c = UpperLetters[i]

Upper(c) == IF \E i \in 1..Len(LowerLetters) : c = LowerLetters[i] THEN UpperLetters[CHOOSE i \in 1..Len(LowerLetters) : c = LowerLetters[i]] ELSE c

Lower(c) == IF \E i \in 1..Len(UpperLetters) : c = UpperLetters[i] THEN LowerLetters[CHOOSE i \in 1..Len(UpperLetters) : c = UpperLetters[i]] ELSE c

\* s.title(): a letter is upper case after a character that is no letter and
\* lower case after a letter
Title(s) == [i \in 1..Len(s) |-> IF i > 1 /\ IsLetter(s[i - 1]) THEN Lower(s[i]) ELSE Upper(s[i])]

---------------------------------------------------------------------------
(* ReportExporter *)

FormatMarkdown == "markdown"

FormatHtml == "html"

FormatJson == "json"

ExportFormats == {FormatMarkdown, FormatHtml, FormatJson}

SuffixMd == <<".", "m", "d">>

SuffixHtml == <<".", "h", "t", "m", "l">>

\* the suffix of the file each exporter writes
ReportSuffix(format) ==
    CASE format = FormatMarkdown -> SuffixMd
      [] format = FormatHtml -> SuffixHtml
      [] format = FormatJson -> SuffixJson

\* f"{timestamp}_{safe_title}.md" and its .html and .json counterparts
ReportName(title, format, t) == Timestamp(Second(t)) \o <<"_">> \o SafeName(title) \o ReportSuffix(format)

Newline == <<"\n">>

Bold == <<"*", "*">>

\* one pass of the loop of _simple_markdown_to_html over a line
ConvertLine(line) ==
    IF StartsWith(line, <<"#", "#", "#", " ">>) THEN <<"<", "h", "3", ">">> \o SubSeq(line, 5, Len(line)) \o <<"<", "/", "h", "3", ">">>
    ELSE IF StartsWith(line, <<"#", "#", " ">>) THEN <<"<", "h", "2", ">">> \o SubSeq(line, 4, Len(line)) \o <<"<", "/", "h", "2", ">">>
    ELSE IF StartsWith(line, <<"#", " ">>) THEN <<"<", "h", "1", ">">> \o SubSeq(line, 3, Len(line)) \o <<"<", "/", "h", "1", ">">>
    ELSE IF Contains(line, Bold) THEN Replace(Replace(line, Bold, <<"<", "s", "t", "r", "o", "n", "g", ">">>, 1), Bold, <<"<", "/", "s", "t", "r", "o", "n", "g", ">">>, 1)
    ELSE IF StartsWith(Strip(line), <<"-", " ">>) THEN <<"<", "l", "i", ">">> \o SubSeq(Strip(line), 3, Len(Strip(line))) \o <<"<", "/", "l", "i", ">">>
    ELSE line

\* _simple_markdown_to_html(text)
SimpleMarkdownToHtml(text) == Join([i \in 1..Len(Split(text, Newline)) |-> ConvertLine(Split(text, Newline)[i])], Newline)

\* html_content of _export_html: content.replace('\n', '<br>\n'), converted
HtmlContent(content) == SimpleMarkdownToHtml(Replace(content, Newline, <<"<", "b", "r", ">", "\n">>, -1))

\* the text _export_markdown writes, by the parts of its header and the
\* content that follows it; an empty metadata is no metadata section
MarkdownReport(content, safe_title, t, metadata) ==
    [kind |-> FormatMarkdown, heading |-> Title(Replace(safe_title, <<"_">>, <<" ">>, -1)), generated |-> Second(t), metadata |-> MetadataOrEmpty(metadata), content |-> content]

\* the document _export_html writes, by the parts it puts into its template
HtmlReport(content, title, t, metadata) ==
    [kind |-> FormatHtml, title |-> title, generated |-> Second(t), metadata |-> MetadataOrEmpty(metadata), html_content |-> HtmlContent(content)]

KeyTitle == <<"t", "i", "t", "l", "e">>

KeyContent == <<"c", "o", "n", "t", "e", "n", "t">>

ReportDataSafeTitle(content, title, t, metadata) ==
    PyDict([k \in {PyStr(KeyTitle), PyStr(KeyContent), PyStr(KeyTimestamp), PyStr(KeyMetadata)} |->
        CASE k.v = KeyTitle -> PyStr(SafeName(title))
          [] k.v = KeyContent -> PyStr(content)
          [] k.v = KeyTimestamp -> PyStr(IsoFormat(t))
          [] k.v = KeyMetadata -> MetadataOrEmpty(metadata)])

\* data = {"title": title, "content": content, "timestamp": datetime.now().isoformat(), "metadata": metadata or {}}
ReportData(content, title, t, metadata) ==
    PyDict([k \in {PyStr(KeyTitle), PyStr(KeyContent), PyStr(KeyTimestamp), PyStr(KeyMetadata)} |->
        CASE k.v = KeyTitle -> PyStr(title)
          [] k.v = KeyContent -> PyStr(content)
          [] k.v = KeyTimestamp -> PyStr(IsoFormat(t))
          [] k.v = KeyMetadata -> MetadataOrEmpty(metadata)])

\* the file each exporter writes at tick t: a file left unfinished when
\* json.dump raises
ReportFile(content, title, format, t, metadata) ==
    CASE format = FormatMarkdown -> WholeFile(MarkdownReport(content, SafeName(title), t, metadata), t)
      [] format = FormatHtml -> WholeFile(HtmlReport(content, title, t, metadata), t)
      [] format = FormatJson -> IF Serializable(ReportData(content, title, t, metadata)) THEN WholeFile(JsonDump(ReportData(content, title, t, metadata)), t) ELSE CutFile(t)

ExportCallAlways(rs, t, content, title, format, metadata) ==
    [reports |-> WriteFile(rs, Timestamp(Second(t)), CutFile(t)), name |-> Timestamp(Second(t)), raised |-> format \notin ExportFormats]

\* export(content, title, format, metadata) at tick t on report directory
\* rs: the new directory, the name of the file, and whether the call raised
ExportCall(rs, t, content, title, format, metadata) ==
    IF format \notin ExportFormats
    THEN [reports |-> rs, name |-> <<>>, raised |-> TRUE]
    ELSE LET file == ReportFile(content, title, format, t, metadata)
             name == ReportName(title, format, t)
         IN  [reports |-> WriteFile(rs, name, file), name |-> name, raised |-> ~file.whole]

ReportDir == <<"r", "/">>

NoExport == [op |-> "init", content |-> <<>>, title |-> <<>>, format |-> "", metadata |-> PyNone, ret |-> <<>>, raised |-> FALSE]

Export(content, title, format, metadata) ==
    /\ LET r == ExportCall(reports, now, content, title, format, metadata)
       IN  /\ reports' = r.reports
           /\ xop' = [op |-> "export", content |-> content, title |-> title, format |-> format, metadata |-> metadata, ret |-> r.name, raised |-> r.raised]
    /\ UNCHANGED <<exportFormat, nRecords, out, bpc, bqueries, bsave, bresults, blog, markdown, html_content, searchVars, storeVars, extractVars, configVars, cliVars>>

NotConverted == [done |-> FALSE, text |-> <<>>]

\* _export_html converts its content
ConvertHtml ==
    /\ ~html_content.done
    /\ html_content' = [done |-> TRUE, text |-> HtmlContent(markdown)]
    /\ UNCHANGED <<xop, markdown, searchVars, storeVars, agentVars, extractVars, configVars, cliVars>>

---------------------------------------------------------------------------
(* ResearchAgent *)

\* a message of the list agent.invoke returns: its type, its content and
\* additional_kwargs.get("reasoning_content"); <<>> is the empty string
Message(type, content, reasoning) == [type |-> type, content |-> content, reasoning |-> reasoning]

RECURSIVE ScanBack(_, _)
\* the loop over reversed(messages), from message i down: the content of
\* the first AI message met that has content, or its reasoning_content when
\* it has no content but has that; "" when the loop ends without a break
ScanBack(msgs, i) ==
    IF i = 0 THEN <<>>
    ELSE IF msgs[i].type = "ai" /\ msgs[i].content # <<>> THEN msgs[i].content
    ELSE IF msgs[i].type = "ai" /\ msgs[i].reasoning # <<>> THEN msgs[i].reasoning
    ELSE ScanBack(msgs, i - 1)

ExtractNoFallback(msgs) == ScanBack(msgs, Len(msgs))

\* the response research() extracts from the message list
ExtractResponse(msgs) ==
    LET found == ScanBack(msgs, Len(msgs))
    IN  IF found = <<>> /\ msgs # <<>> THEN msgs[Len(msgs)].content ELSE found

\* the language the agent was constructed with
Language == PyStr(<<"e", "n">>)

KeyLanguage == <<"l", "a", "n", "g", "u", "a", "g", "e">>

\* metadata={"language": self.language}
MetaOfAgent == PyDict([k \in {PyStr(KeyLanguage)} |-> Language])

\* metadata={"query": query, "language": self.language}
ReportMetaOfAgent(query) == PyDict([k \in {PyStr(KeyQuery), PyStr(KeyLanguage)} |-> IF k.v = KeyQuery THEN PyStr(query) ELSE Language])

\* what agent.invoke can do: raise, or return a message list
Raises == [raised |-> TRUE, messages |-> <<>>]

Returns(msgs) == [raised |-> FALSE, messages |-> msgs]

\* the dictionary research() returns: a function from its keys
Output(query, resp) == [k \in {"query", "response"} |-> IF k = "query" THEN query ELSE resp]

WithNothing(d, key, value) == d

\* output[key] = value
With(d, key, value) == [k \in DOMAIN d \cup {key} |-> IF k = key THEN value ELSE d[k]]

\* research(query, save_results, export_report) at tick t, when agent.invoke
\* answers with outcome: the new directories, whether the call raised, and
\* the dictionary returned
ResearchCall(fs, rs, t, query, save_results, export_report, format, outcome) ==
    IF outcome.raised
    THEN [files |-> fs, reports |-> rs, raised |-> TRUE, ret |-> <<>>, error |-> "agent error"]
    ELSE
        LET resp == ExtractResponse(outcome.messages)
            dumped == WriteFile(fs, DebugName, CutFile(t))
            saved == SaveResearchCall(dumped, t, query, PyStr(resp), MetaOfAgent)
            fs1 == IF save_results THEN saved.files ELSE dumped
            out1 == IF save_results THEN With(Output(query, resp), "saved_path", DataDir \o saved.name) ELSE Output(query, resp)
            exported == ExportCall(rs, t, resp, query, format, ReportMetaOfAgent(query))
            rs1 == IF export_report THEN exported.reports ELSE rs
            out2 == IF export_report THEN With(out1, "report_path", ReportDir \o exported.name) ELSE out1
        IN  IF save_results /\ saved.raised
            THEN [files |-> fs1, reports |-> rs, raised |-> TRUE, ret |-> <<>>, error |-> "save error"]
            ELSE IF export_report /\ exported.raised
            THEN [files |-> fs1, reports |-> rs1, raised |-> TRUE, ret |-> <<>>, error |-> "export error"]
            ELSE [files |-> fs1, reports |-> rs1, raised |-> FALSE, ret |-> out2, error |-> ""]

\* the defaults of the arguments of research
SaveResultsDefault == TRUE

ExportReportDefault == FALSE

NoResearch == [seq |-> 0, op |-> "init", query |-> <<>>, save |-> FALSE, export |-> FALSE, raised |-> FALSE, ret |-> <<>>]

Research(query, save_results, export_report, outcome) ==
    /\ bpc # "loop"
    /\ out.seq < MaxResearch
    /\ LET r == ResearchCall(files, reports, now, query, save_results, export_report, exportFormat, outcome)
       IN  /\ files' = r.files
           /\ reports' = r.reports
           /\ out' = [seq |-> out.seq + 1, op |-> "research", query |-> query, save |-> save_results, export |-> export_report, raised |-> r.raised, ret |-> r.ret]
           /\ nRecords' = IF save_results /\ ~r.raised THEN nRecords + 1 ELSE nRecords
    /\ UNCHANGED <<now, sop, lastSave, exportFormat, bpc, bqueries, bsave, bresults, blog, searchVars, extractVars, configVars, cliVars, exportVars>>

\* the export_report argument batch_research passes to research
ExportInBatch == FALSE

ErrorEntryWithResponse(query, error) == [k \in {"query", "error", "response"} |-> IF k = "query" THEN query ELSE error]

\* the entry batch_research appends when research raised
ErrorEntry(query, error) == [k \in {"query", "error"} |-> IF k = "query" THEN query ELSE error]

\* batch_research(queries, save_results) is called
BatchStart(queries, save_results) ==
    /\ bpc = "idle"
    /\ bpc' = "loop"
    /\ bqueries' = queries
    /\ bsave' = save_results
    /\ bresults' = <<>>
    /\ blog' = <<>>
    /\ UNCHANGED <<files, now, sop, lastSave, reports, exportFormat, nRecords, out, searchVars, extractVars, configVars, cliVars, exportVars>>

\* one iteration of the loop of batch_research
BatchStep(outcome) ==
    /\ bpc = "loop"
    /\ Len(bresults) < Len(bqueries)
    /\ LET query == bqueries[Len(bresults) + 1]
           r == ResearchCall(files, reports, now, query, bsave, ExportInBatch, exportFormat, outcome)
       IN  /\ files' = r.files
           /\ reports' = r.reports
           /\ out' = [seq |-> out.seq + 1, op |-> "research", query |-> query, save |-> bsave, export |-> ExportInBatch, raised |-> r.raised, ret |-> r.ret]
           /\ nRecords' = IF bsave /\ ~r.raised THEN nRecords + 1 ELSE nRecords
           /\ bresults' = Append(bresults, IF r.raised THEN ErrorEntry(query, r.error) ELSE r.ret)
           /\ blog' = Append(blog, r.raised)
    /\ UNCHANGED <<now, sop, lastSave, exportFormat, bpc, bqueries, bsave, searchVars, extractVars, configVars, cliVars, exportVars>>

\* batch_research returns its results
BatchReturn ==
    /\ bpc = "loop"
    /\ Len(bresults) = Len(bqueries)
    /\ bpc' = "done"
    /\ out' = [seq |-> out.seq + 1, op |-> "batch", query |-> <<>>, save |-> bsave, export |-> FALSE, raised |-> FALSE, ret |-> bresults]
    /\ UNCHANGED <<files, now, sop, lastSave, reports, exportFormat, nRecords, bqueries, bsave, bresults, blog, searchVars, extractVars, configVars, cliVars, exportVars>>

---------------------------------------------------------------------------
(* Response extraction on its own *)

Extract ==
    /\ epc = "start"
    /\ response' = ExtractResponse(messages)
    /\ epc' = "done"
    /\ UNCHANGED <<messages, searchVars, storeVars, agentVars, configVars, cliVars, exportVars>>

---------------------------------------------------------------------------
(* Settings *)

ProviderAnthropic == "anthropic"

ProviderOpenai == "openai"

ProviderGoogle == "google"

ProviderCustom == "custom"

AgentProviders == {ProviderAnthropic, ProviderOpenai, ProviderGoogle, ProviderCustom}

\* the fields of Settings the model keeps
SettingsFields == {"agent_provider", "agent_api_key", "anthropic_api_key", "tavily_api_key", "openai_api_key", "google_api_key", "search_cache_enabled", "storage_auto_save"}

\* the fields declared Optional[str]
OptionalFields == {"agent_api_key", "anthropic_api_key", "openai_api_key", "google_api_key"}

\* the fields declared bool
BoolFields == {"search_cache_enabled", "storage_auto_save"}

\* the field declared with Field(...), which has no default
RequiredFields == {"tavily_api_key"}

\* the defaults the fields are declared with
FieldDefaults == [agent_provider |-> ProviderAnthropic, agent_api_key |-> None, anthropic_api_key |-> None, openai_api_key |-> None, google_api_key |-> None, search_cache_enabled |-> TRUE, storage_auto_save |-> TRUE]

\* the environment variable a field is read from: with case_sensitive=False
\* and no prefix, its name in any case, here in upper case
EnvName == [agent_provider |-> "AGENT_PROVIDER", agent_api_key |-> "AGENT_API_KEY", anthropic_api_key |-> "ANTHROPIC_API_KEY", tavily_api_key |-> "TAVILY_API_KEY", openai_api_key |-> "OPENAI_API_KEY", google_api_key |-> "GOOGLE_API_KEY", search_cache_enabled |-> "SEARCH_CACHE_ENABLED", storage_auto_save |-> "STORAGE_AUTO_SAVE"]

\* values of a parsed YAML document: strings, booleans and mappings
YamlStr(x) == [py |-> "str", v |-> x]

YamlBool(b) == [py |-> "bool", v |-> b]

YamlMap(f) == [py |-> "dict", v |-> f]

\* the strings pydantic reads as True for a bool field
TrueStrings == {"1", "true", "t", "yes", "y", "on"}

\* the value pydantic validation gives a field for a raw value: a bool is
\* parsed from a string, the other fields keep the string
Coerce(field, raw) ==
    IF field \in BoolFields THEN (IF raw.py = "bool" THEN raw.v ELSE raw.v \in TrueStrings)
    ELSE IF field \in OptionalFields THEN Some(raw.v)
    ELSE raw.v

\* the source BaseSettings takes the value of a field from: the arguments
\* of the initialiser first, then the environment, then the default
FieldSource(field, kwargs, env) ==
    IF field \in DOMAIN kwargs THEN "init"
    ELSE IF EnvName[field] \in DOMAIN env THEN "env"
    ELSE IF field \in RequiredFields THEN "missing"
    ELSE "default"

FieldValue(field, kwargs, env) ==
    CASE FieldSource(field, kwargs, env) = "init" -> Coerce(field, kwargs[field])
      [] FieldSource(field, kwargs, env) = "env" -> Coerce(field, YamlStr(env[EnvName[field]]))
      [] OTHER -> FieldDefaults[field]

\* Settings(**kwargs) in environment env: raises when a required field has
\* no value; extra arguments are ignored
SettingsInit(kwargs, env) ==
    IF \E field \in RequiredFields : FieldSource(field, kwargs, env) = "missing"
    THEN [raised |-> TRUE, settings |-> <<>>]
    ELSE [raised |-> FALSE, settings |-> [field \in SettingsFields |-> FieldValue(field, kwargs, env)]]

\* the pairs of a section that is a mapping and a key of it
NestedKeys(yaml_data) == UNION {{<<section, key>> : key \in DOMAIN yaml_data.v[section].v} : section \in {n \in DOMAIN yaml_data.v : yaml_data.v[n].py = "dict"}}

\* the sections that are no mapping
PlainKeys(yaml_data) == {section \in DOMAIN yaml_data.v : yaml_data.v[section].py # "dict"}

\* the loop of from_yaml that flattens the nested structure: config_data
\* has f"{section}_{key}" for the keys of a section that is a mapping, and
\* the name of the section otherwise
Flatten(yaml_data) ==
    [config_key \in {p[1] \o "_" \o p[2] : p \in NestedKeys(yaml_data)} \cup PlainKeys(yaml_data) |->
        IF config_key \in PlainKeys(yaml_data) THEN yaml_data.v[config_key]
        ELSE LET p == CHOOSE q \in NestedKeys(yaml_data) : q[1] \o "_" \o q[2] = config_key IN yaml_data.v[p[1]].v[p[2]]]

NoFile == [exists |-> FALSE, data |-> YamlMap(<<>>)]

\* a config.yaml that yaml.safe_load parses to data; an empty file parses to
\* None, which is YamlMap(<<>>) here, as both are skipped by "if yaml_data"
YamlFile(data) == [exists |-> TRUE, data |-> data]

\* config_data of from_yaml
ConfigData(file) == IF file.exists THEN Flatten(file.data) ELSE <<>>

NotLoaded == [done |-> FALSE, raised |-> FALSE, settings |-> <<>>]

\* Settings.from_yaml(config_path)
FromYaml ==
    /\ ~loaded.done
    /\ loaded' = [done |-> TRUE, raised |-> SettingsInit(ConfigData(configFile), environ).raised, settings |-> SettingsInit(ConfigData(configFile), environ).settings]
    /\ UNCHANGED <<settings, configFile, environ, model, searchVars, storeVars, agentVars, extractVars, cliVars, exportVars>>

\* the Settings of a process with TAVILY_API_KEY set and nothing else
DefaultSettings == SettingsInit(<<>>, [n \in {"TAVILY_API_KEY"} |-> "tvly"]).settings

---------------------------------------------------------------------------
(* ResearchAgent._configure_model *)

\* whether an Optional[str] is truthy: neither None nor ""
HasKey(key) == key # None /\ key # Some("")

ProviderKey(s) ==
    CASE s.agent_provider = ProviderAnthropic -> s.anthropic_api_key
      [] s.agent_provider = ProviderOpenai -> s.openai_api_key
      [] s.agent_provider = ProviderGoogle -> s.google_api_key
      [] OTHER -> s.agent_api_key

ResolveKeyAny(s) == IF HasKey(s.agent_api_key) THEN s.agent_api_key ELSE IF HasKey(s.openai_api_key) THEN s.openai_api_key ELSE ProviderKey(s)

\* api_key after "Resolve API Key"
ResolveKey(s) == IF HasKey(s.agent_api_key) THEN s.agent_api_key ELSE ProviderKey(s)

Dummy == Some("dummy")

\* _configure_model() on settings s: the class of the model and the api_key
\* it is built with, or that the call raised ValueError
ConfigureModel(s) ==
    CASE s.agent_provider = ProviderAnthropic -> [raised |-> FALSE, class |-> "ChatAnthropic", api_key |-> ResolveKey(s)]
      [] s.agent_provider \in {ProviderOpenai, ProviderCustom} -> [raised |-> FALSE, class |-> "ChatOpenAI", api_key |-> IF HasKey(ResolveKey(s)) THEN ResolveKey(s) ELSE Dummy]
      [] s.agent_provider = ProviderGoogle -> [raised |-> FALSE, class |-> "ChatGoogleGenerativeAI", api_key |-> ResolveKey(s)]
      [] OTHER -> [raised |-> TRUE, class |-> "", api_key |-> None]

NoModel == [done |-> FALSE, raised |-> FALSE, class |-> "", api_key |-> None]

Configure ==
    /\ ~model.done
    /\ model' = [done |-> TRUE, raised |-> ConfigureModel(settings).raised, class |-> ConfigureModel(settings).class, api_key |-> ConfigureModel(settings).api_key]
    /\ UNCHANGED <<settings, configFile, environ, loaded, searchVars, storeVars, agentVars, extractVars, cliVars, exportVars>>

---------------------------------------------------------------------------
(* The research command *)

\* the default min_length of validate_query
MinQueryLength == 3

\* the default max_length of validate_query
MaxQueryLength == 500

\* bool(os.environ.get(name))
HasEnv(env, name) == name \in DOMAIN env /\ env[name] # ""

\* validate_api_keys(): whether it returns (True, None)
ValidateApiKeys(env) ==
    /\ HasEnv(env, "TAVILY_API_KEY")
    /\ HasEnv(env, "ANTHROPIC_API_KEY") \/ HasEnv(env, "OPENAI_API_KEY") \/ HasEnv(env, "GOOGLE_API_KEY") \/ HasEnv(env, "AGENT_API_KEY")

ValidateQueryAlways(query) == TRUE

\* validate_query(query): whether it returns (True, None)
ValidateQuery(query) ==
    IF query = None \/ query = Some(<<>>) \/ Strip(query[1]) = <<>> THEN FALSE
    ELSE IF Len(Strip(query[1])) < MinQueryLength THEN FALSE
    ELSE IF Len(Strip(query[1])) > MaxQueryLength THEN FALSE
    ELSE TRUE

\* the default of the --lang option
DefaultLang == "en"

\* click.Choice(["en", "zh"])
LangChoices == {"en", "zh"}

\* the value of lang: the option's when --lang is on the command line, the
\* default when it is not
LangValue(option) == IF option = None THEN DefaultLang ELSE option[1]

\* '\u4e00'
CjkFirst == 19968

\* '\u9fff'
CjkLast == 40959

\* ord(c): a character written "U+XXXX" is the one at that code point, every
\* other character of the model is ASCII
Ord(c) ==
    CASE c = "U+3042" -> 12354
      [] c = "U+4DFF" -> 19967
      [] c = "U+4E00" -> 19968
      [] c = "U+4E2D" -> 20013
      [] c = "U+9FFF" -> 40959
      [] c = "U+A000" -> 40960
      [] OTHER -> 127

\* any('\u4e00' <= char <= '\u9fff' for char in query)
HasChinese(query) == \E i \in 1..Len(query) : CjkFirst <= Ord(query[i]) /\ Ord(query[i]) <= CjkLast

\* if lang == "en" and any(...): lang = "zh"
DetectLang(lang, query) == IF lang = "en" /\ HasChinese(query) THEN "zh" ELSE lang

\* given is history: the --lang option of the command line; language is
\* the argument the ResearchAgent constructor was called with
NoCommand == [pc |-> "idle", query |-> None, log |-> <<>>, agent |-> "none", exit |-> None, lang |-> DefaultLang, given |-> None, language |-> None]

\* the command starts with its query argument, None when there is none
Command(query) == [pc |-> "keys", query |-> query, log |-> <<>>, agent |-> "none", exit |-> None, lang |-> DefaultLang, given |-> None, language |-> None]

\* the command started with a --lang option, None when there is none
CommandLang(query, option) == [Command(query) EXCEPT !.lang = LangValue(option), !.given = option]

\* sys.exit(code)
Exit(c, code) == [c EXCEPT !.pc = "exit", !.exit = Some(code)]

Logged(c, call) == [c EXCEPT !.log = Append(c.log, call)]

\* valid, error = validate_api_keys(), and the exit that follows a failure
CliValidateKeys ==
    /\ cli.pc = "keys"
    /\ cli' = IF ValidateApiKeys(environ) THEN [Logged(cli, "validate_api_keys") EXCEPT !.pc = "query"] ELSE Exit(Logged(cli, "validate_api_keys"), 1)
    /\ UNCHANGED <<searchVars, storeVars, agentVars, extractVars, configVars, exportVars, chat, shown>>

\* if not query: query = formatter.prompt(...), which the user answers
CliGetQuery(answer) ==
    /\ cli.pc = "query"
    /\ cli' = IF cli.query = None \/ cli.query = Some(<<>>) THEN [Logged(cli, "prompt") EXCEPT !.pc = "validate", !.query = Some(answer)] ELSE [cli EXCEPT !.pc = "validate"]
    /\ UNCHANGED <<searchVars, storeVars, agentVars, extractVars, configVars, exportVars, chat, shown>>

\* valid, error = validate_query(query), and the exit that follows a failure
CliValidateQuery ==
    /\ cli.pc = "validate"
    /\ cli' = IF ValidateQuery(cli.query) THEN [Logged(cli, "validate_query") EXCEPT !.pc = "construct"] ELSE Exit(Logged(cli, "validate_query"), 1)
    /\ UNCHANGED <<searchVars, storeVars, agentVars, extractVars, configVars, exportVars, chat, shown>>

\* what a call inside the try block can do
CallOutcomes == {"return", "raise", "interrupt"}

\* the exit code of the handlers of the try block
ExitCode(outcome) == IF outcome = "interrupt" THEN 130 ELSE IF outcome = "raise" THEN 1 ELSE 0

\* the language detection and agent = ResearchAgent(language=lang)
CliConstruct(outcome) ==
    /\ cli.pc = "construct"
    /\ LET c == [cli EXCEPT !.lang = DetectLang(cli.lang, cli.query[1]), !.language = Some(DetectLang(cli.lang, cli.query[1]))]
       IN  cli' = IF outcome = "return" THEN [Logged(c, "ResearchAgent") EXCEPT !.pc = "research", !.agent = "built"] ELSE [Exit(Logged(c, "ResearchAgent"), ExitCode(outcome)) EXCEPT !.agent = "failed"]
    /\ UNCHANGED <<searchVars, storeVars, agentVars, extractVars, configVars, exportVars, chat, shown>>

\* result = agent.research(...), the display of the result and the return
CliResearch(outcome) ==
    /\ cli.pc = "research"
    /\ cli' = Exit(Logged(cli, "research"), ExitCode(outcome))
    /\ UNCHANGED <<searchVars, storeVars, agentVars, extractVars, configVars, exportVars, chat, shown>>

---------------------------------------------------------------------------
(* The chat command *)

\* the number of inputs of a chat session
MaxTurns == 2

\* query.lower()
LowerStr(s) == [i \in 1..Len(s) |-> Lower(s[i])]

\* ["exit", "quit", "q"]
ExitWords == {<<"e", "x", "i", "t">>, <<"q", "u", "i", "t">>, <<"q">>}

HelpWord == <<"h", "e", "l", "p">>

ChatBranchCaseSensitive(query) ==
    IF query = <<>> THEN "empty"
    ELSE IF query \in ExitWords THEN "exit"
    ELSE IF query = HelpWord THEN "help"
    ELSE IF ~ValidateQuery(Some(query)) THEN "invalid"
    ELSE "research"

\* the branch of the loop body that handles query
ChatBranch(query) ==
    IF query = <<>> THEN "empty"
    ELSE IF LowerStr(query) \in ExitWords THEN "exit"
    ELSE IF LowerStr(query) = HelpWord THEN "help"
    ELSE IF ~ValidateQuery(Some(query)) THEN "invalid"
    ELSE "research"

\* agent.research(query=query, save_results=True, export_report=False)
ChatResearchCall(query) == [query |-> query, save_results |-> TRUE, export_report |-> FALSE]

\* turns, input, branch, outcome and before are history: the number of
\* iterations started, what the prompt of the last one did, the branch that
\* handled it, what its research call did, and the number of research calls
\* made before it; calls are the research calls of the session
NoChat == [pc |-> "idle", turns |-> 0, input |-> [kind |-> "none", value |-> <<>>], branch |-> "none", outcome |-> "none", before |-> 0, calls |-> <<>>, exit |-> None]

ChatCommand == [NoChat EXCEPT !.pc = "keys"]

\* valid, error = validate_api_keys(), and the exit that follows a failure
ChatValidateKeys ==
    /\ chat.pc = "keys"
    /\ chat' = IF ValidateApiKeys(environ) THEN [chat EXCEPT !.pc = "construct"] ELSE Exit(chat, 1)
    /\ UNCHANGED <<searchVars, storeVars, agentVars, extractVars, configVars, exportVars, cli, shown>>

\* agent = ResearchAgent(): an exception goes to the outer handler, a
\* KeyboardInterrupt leaves the command
ChatConstruct(outcome) ==
    /\ chat.pc = "construct"
    /\ chat' = IF outcome = "return" THEN [chat EXCEPT !.pc = "prompt"] ELSE Exit(chat, 1)
    /\ UNCHANGED <<searchVars, storeVars, agentVars, extractVars, configVars, exportVars, cli, shown>>

\* one iteration of the while loop on chat c: the prompt does input
\* (returns a value, is interrupted, or raises), and the research call, when
\* there is one, does outcome
ChatIteration(c, input, outcome) ==
    LET d == [c EXCEPT !.turns = c.turns + 1, !.input = input, !.outcome = "none", !.before = Len(c.calls)]
        called == [d EXCEPT !.branch = "research", !.outcome = outcome, !.calls = Append(c.calls, ChatResearchCall(input.value))]
    IN  IF input.kind = "interrupt" THEN [d EXCEPT !.branch = "interrupt"]
        ELSE IF input.kind = "raise" THEN Exit([d EXCEPT !.branch = "error"], 1)
        ELSE IF ChatBranch(input.value) = "exit" THEN Exit([d EXCEPT !.branch = "exit"], 0)
        ELSE IF ChatBranch(input.value) \in {"empty", "help", "invalid"} THEN [d EXCEPT !.branch = ChatBranch(input.value)]
        ELSE IF outcome = "raise" THEN Exit(called, 1)
        ELSE called

\* the body of the while loop
ChatTurn(input, outcome) ==
    /\ chat.pc = "prompt"
    /\ chat.turns < MaxTurns
    /\ chat' = ChatIteration(chat, input, outcome)
    /\ UNCHANGED <<searchVars, storeVars, agentVars, extractVars, configVars, exportVars, cli, shown>>

---------------------------------------------------------------------------
(* The config command *)

\* the API keys of the Settings, as the config command lists them
KeyFields == {"agent_api_key", "anthropic_api_key", "openai_api_key", "google_api_key", "tavily_api_key"}

Stars == <<"*", "*", "*">>

NotSet == <<"N", "o", "t", " ", "S", "e", "t">>

\* s[-4:]
LastFour(s) == SubSeq(s, IF Len(s) > 4 THEN Len(s) - 3 ELSE 1, Len(s))

\* "***" + key[-4:] if key else "Not set"
MaskKey(key) == IF key # None /\ key # Some(<<>>) THEN Stars \o LastFour(key[1]) ELSE NotSet

\* the entries of config_data for the API keys
ConfigKeys(keys) == [f \in KeyFields |-> MaskKey(keys[f])]

NoConfig == [pc |-> "idle", keys |-> [f \in KeyFields |-> None], data |-> <<>>, exit |-> None]

\* the config command starts with settings that hold keys
ConfigCommand(keys) == [pc |-> "start", keys |-> keys, data |-> <<>>, exit |-> None]

\* config(): get_settings() returns or raises; when it returns, every entry
\* of config_data is printed
Config(outcome) ==
    /\ shown.pc = "start"
    /\ shown' = IF outcome = "return" THEN [shown EXCEPT !.pc = "exit", !.data = <<ConfigKeys(shown.keys)>>, !.exit = Some(0)] ELSE [shown EXCEPT !.pc = "exit", !.exit = Some(1)]
    /\ UNCHANGED <<searchVars, storeVars, agentVars, extractVars, configVars, exportVars, cli, chat>>

---------------------------------------------------------------------------
(* Inputs *)

QueryAB == <<"a", " ", "b">>

\* sanitised to the same name as QueryAB
QueryAqB == <<"a", "?", "b">>

QueryQ == <<"q">>

\* two queries that agree on their first 50 characters
QueryLongY == [i \in 1..MaxNameLen |-> "x"] \o <<"y">>

QueryLongZ == [i \in 1..MaxNameLen |-> "x"] \o <<"z">>

StorageQueries == {QueryAB, QueryAqB, QueryQ}

TextR == PyStr(<<"r">>)

\* results given to save_research in the listing runs: a text, and a value
\* json.dump rejects
StorageResults == {TextR, PySet}

\* results given to save_research in the round-trip runs
RoundTripResults == {TextR, PyInt(7), PyList(<<TextR, PyNone>>), PyTuple(<<TextR>>), PyDict([k \in {PyStr(<<"k">>)} |-> PyList(<<>>)]), PyDict([k \in {PyInt(1)} |-> TextR]), PySet}

MetaLanguage == PyDict([k \in {PyStr(<<"l", "a", "n", "g", "u", "a", "g", "e">>)} |-> PyStr(<<"e", "n">>)])

Metadatas == {PyNone, EmptyDict, MetaLanguage}

\* the limits given to list_research
Limits == {None, Some(0), Some(1), Some(2)}

\* the file names given to load_research and delete_research: the files of
\* the directory and one name that may be missing
FileArgs == DOMAIN files \cup {SaveName(QueryQ, 0)}

\* the queries given to research and batch_research
AgentQueries == {QueryAB, QueryAqB, QueryLongY, QueryLongZ}

TextA == <<"A">>

TextT == <<"T">>

TextR2 == <<"R">>

\* the message lists agent.invoke returns in the runs of research
AgentReplies == {<<Message("human", QueryQ, <<>>), Message("ai", TextA, <<>>)>>, <<Message("ai", <<>>, <<>>), Message("tool", TextT, <<>>)>>}

AgentOutcomes == {Raises} \cup {Returns(m) : m \in AgentReplies}

\* the messages a list can hold: AI messages with and without content and
\* reasoning_content, two of each, and a tool message
SomeMessages == {Message("ai", TextA, <<>>), Message("ai", <<"B">>, <<>>), Message("ai", <<>>, TextR2), Message("ai", <<>>, <<"S">>), Message("ai", <<>>, <<>>), Message("tool", TextT, <<>>)}

RECURSIVE SeqsUpTo(_, _)
\* the sequences over S of length at most n
SeqsUpTo(S, n) == IF n = 0 THEN {<<>>} ELSE SeqsUpTo(S, n - 1) \cup {Append(q, x) : q \in {p \in SeqsUpTo(S, n - 1) : Len(p) = n - 1}, x \in S}

MessageLists == SeqsUpTo(SomeMessages, MaxMessages)

BatchQueryLists == SeqsUpTo({QueryAB, QueryAqB}, MaxBatch)

\* the tokens the contents given to _export_html are made of
MarkdownTokens == {Bold, <<"a">>, <<"#", " ">>, <<"-", " ">>, Newline}

MarkdownContents == {Join(q, <<>>) : q \in SeqsUpTo(MarkdownTokens, MaxTokens)}

ContentR == <<"r">>

ContentLines == <<"a", "\n", "*", "*", "b">>

ExportContents == {ContentR, ContentLines}

\* two titles that are sanitised to the same file name
ExportTitles == {QueryAB, QueryAqB}

\* format values that are no member of ExportFormat
OtherFormats == {"pdf", "MARKDOWN"}

KeyK == PyStr(<<"k">>)

\* the metadata given to export: dicts json keeps, dicts json changes, and
\* a dict json.dump rejects
ExportMetadatas == {EmptyDict, MetaLanguage, PyDict([k \in {KeyK} |-> PyTuple(<<TextR>>)]), PyDict([k \in {PyInt(1)} |-> TextR]), PyDict([k \in {KeyK} |-> PySet])}

\* the sections a config.yaml can have: three mappings and a plain value
YamlSections == [agent |-> YamlMap([provider |-> YamlStr(ProviderOpenai)]), search |-> YamlMap([cache_enabled |-> YamlBool(FALSE)]), tavily |-> YamlMap([api_key |-> YamlStr("ty")]), storage_auto_save |-> YamlBool(FALSE)]

YamlFiles == {NoFile} \cup {YamlFile(YamlMap([section \in S |-> YamlSections[section]])) : S \in SUBSET DOMAIN YamlSections}

EnvValues == [AGENT_PROVIDER |-> ProviderGoogle, SEARCH_CACHE_ENABLED |-> "true", TAVILY_API_KEY |-> "te", STORAGE_AUTO_SAVE |-> "true"]

Envs == {[n \in N |-> EnvValues[n]] : N \in SUBSET DOMAIN EnvValues}

\* the settings given to _configure_model: the four providers and a value
\* that is none of them, with and without each key
ModelSettings == {[DefaultSettings EXCEPT !.agent_provider = p, !.agent_api_key = k, !.anthropic_api_key = a, !.openai_api_key = o, !.google_api_key = g] :
    p \in AgentProviders \cup {"other"}, k \in {None, Some(""), Some("k")}, a \in {None, Some("ka")}, o \in {None, Some("ko")}, g \in {None, Some("kg")}}

\* the settings of an agent, with the two switches either way
SwitchSettings == {[DefaultSettings EXCEPT !.search_cache_enabled = c, !.storage_auto_save = a] : c \in BOOLEAN, a \in BOOLEAN}

CliEnvs == {<<>>} \cup {[n \in N |-> IF n = "AGENT_API_KEY" THEN "" ELSE "key"] : N \in {{"TAVILY_API_KEY"}, {"OPENAI_API_KEY"}, {"TAVILY_API_KEY", "OPENAI_API_KEY"}, {"TAVILY_API_KEY", "AGENT_API_KEY"}, {"TAVILY_API_KEY", "GOOGLE_API_KEY"}}}

Xs(n) == [i \in 1..n |-> "x"]

\* the query arguments of the command: none, empty, blank, and queries
\* around both limits with and without spaces around them
CliQueries == {None, Some(<<>>), Some(<<" ", " ", " ">>), Some(<<"a", "b">>), Some(<<" ", "a", "b", " ">>), Some(<<"a", "b", "c">>), Some(<<" ", "a", " ", "c", " ">>), Some(Xs(MaxQueryLength)), Some(Xs(MaxQueryLength + 1)), Some(<<" ">> \o Xs(MaxQueryLength) \o <<" ">>)}

\* the --lang option of the command line: none, or one of the choices
LangOptions == {None} \cup {Some(l) : l \in LangChoices}

\* queries without Chinese characters, with one among others, with the first
\* and the last character of the range, and with the characters next to the
\* range on both sides
LangQueries == {None, Some(<<"a", "b", "c">>), Some(<<"a", "U+4E2D", "c">>), Some(<<"U+4E2D", "U+4E2D", "U+4E2D">>), Some(<<"a", "b", "U+4E00">>), Some(<<"U+9FFF", "b", "c">>), Some(<<"U+4DFF", "U+A000", "c">>), Some(<<"U+3042", "U+3042", "U+3042">>)}

\* what the user types at the prompt of a chat: nothing, the three words
\* that end the session in lower, upper and mixed case, help in lower and
\* mixed case, words with spaces around them, a blank, a question that is too
\* short, and questions
ChatTexts == {<<>>, <<"e", "x", "i", "t">>, <<"E", "X", "I", "T">>, <<"Q", "u", "i", "t">>, <<"q">>, <<"Q">>, <<"h", "e", "l", "p">>, <<"H", "e", "l", "p">>, <<" ", "q", " ">>, <<"e", "x", "i", "t", " ">>, <<" ", "h", "e", "l", "p">>, <<" ", " ", " ">>, <<"a", "b">>, <<"a", "b", "c">>, <<"q", "u", "i", "t", "s">>}

\* what formatter.prompt can do
ChatInputs == {[kind |-> "return", value |-> t] : t \in ChatTexts} \cup {[kind |-> "interrupt", value |-> <<>>], [kind |-> "raise", value |-> <<>>]}

\* the longest key of the settings
MaxKeyLen == 5

KeyText == <<"s", "k", "-", "a", "b", "q", "x", "y", "z">>

\* a key that is not set, an empty one, and keys of one character, of four
\* and of more than four
KeyValues == {None} \cup {Some(Prefix(KeyText, n)) : n \in {0, 1} \cup 4..MaxKeyLen}

\* tavily_api_key is a str, the other keys are Optional[str]
KeySettings == {k \in [KeyFields -> KeyValues] : k["tavily_api_key"] # None}

\* what the user answers to the prompt
CliAnswers == {<<>>, <<"a", "b">>, <<"a", "b", "c">>}

---------------------------------------------------------------------------
(* Specifications *)

InitSearch == cache = <<>> /\ apiCalls = 0 /\ sret = NoCall /\ obtained = <<>>

InitStore == now = 0 /\ files = <<>> /\ sop = NoOp /\ lastSave = <<>>

InitAgent == reports = <<>> /\ exportFormat = FormatMarkdown /\ nRecords = 0 /\ out = NoResearch /\ bpc = "idle" /\ bqueries = <<>> /\ bsave = FALSE /\ bresults = <<>> /\ blog = <<>>

InitExtract == messages = <<>> /\ response = <<>> /\ epc = "idle"

InitConfig == settings = DefaultSettings /\ configFile = NoFile /\ environ = <<>> /\ loaded = NotLoaded /\ model = NoModel

InitCli == cli = NoCommand /\ chat = NoChat /\ shown = NoConfig

InitExport == xop = NoExport /\ markdown = <<>> /\ html_content = NotConverted

Init == InitSearch /\ InitStore /\ InitAgent /\ InitExtract /\ InitConfig /\ InitCli /\ InitExport

NextSearch ==
    \/ \E a \in SearchArgs, o \in ApiOutcomes : Search(a, o)
    \/ ClearCache

\* the SearchTool alone
SpecSearch == Init /\ [][NextSearch]_vars

NextStorage ==
    \/ \E q \in StorageQueries, r \in StorageResults : SaveResearch(q, r, PyNone)
    \/ \E n \in FileArgs : LoadResearch(n)
    \/ \E limit \in Limits : ListResearch(limit)
    \/ \E n \in FileArgs : DeleteResearch(n)
    \/ Tick

\* the StorageManager and the clock
SpecStorage == Init /\ [][NextStorage]_vars

NextDelete ==
    \/ \E q \in StorageQueries, r \in StorageResults : SaveResearch(q, r, PyNone)
    \/ \E n \in FileArgs : DeleteResearch(n)
    \/ Tick

\* save_research and delete_research calls, and the clock
SpecDelete == Init /\ [][NextDelete]_vars

NextRoundTrip ==
    \/ \E q \in {QueryAqB, QueryQ}, r \in RoundTripResults, m \in Metadatas : SaveResearch(q, r, m)
    \/ \E n \in FileArgs : LoadResearch(n)

\* save_research and load_research on all kinds of values, within one second
SpecRoundTrip == Init /\ [][NextRoundTrip]_vars

\* an agent is constructed from settings with any export format
InitAnyFormat == InitSearch /\ InitStore /\ InitExtract /\ InitConfig /\ InitCli /\ InitExport /\ exportFormat \in ExportFormats /\ reports = <<>> /\ nRecords = 0 /\ out = NoResearch /\ bpc = "idle" /\ bqueries = <<>> /\ bsave = FALSE /\ bresults = <<>> /\ blog = <<>>

NextAgent ==
    \/ \E q \in AgentQueries, save \in BOOLEAN, export \in BOOLEAN, o \in AgentOutcomes : Research(q, save, export, o)
    \/ Tick

\* research() calls of one agent, and the clock
SpecAgent == InitAnyFormat /\ [][NextAgent]_vars

NextBatch ==
    \/ \E qs \in BatchQueryLists, save \in BOOLEAN : BatchStart(qs, save)
    \/ \E o \in AgentOutcomes : BatchStep(o)
    \/ BatchReturn
    \/ Tick

\* one batch_research call of an agent, and the clock
SpecBatch == InitAnyFormat /\ [][NextBatch]_vars

InitMessages == InitSearch /\ InitStore /\ InitAgent /\ InitConfig /\ InitCli /\ InitExport /\ messages \in MessageLists /\ response = <<>> /\ epc = "start"

\* the extraction of the response from every message list
SpecExtract == InitMessages /\ [][Extract]_vars

NextExport ==
    \/ \E c \in ExportContents, t \in ExportTitles, f \in ExportFormats \cup OtherFormats : Export(c, t, f, PyNone)
    \/ \E c \in ExportContents, t \in ExportTitles, m \in ExportMetadatas : Export(c, t, FormatJson, m)

\* the ReportExporter alone, within one tick: calls without metadata in
\* every format, and JSON exports with metadata
SpecExport == Init /\ [][NextExport]_vars

InitHtml == InitSearch /\ InitStore /\ InitAgent /\ InitExtract /\ InitConfig /\ InitCli /\ xop = NoExport /\ markdown \in MarkdownContents /\ html_content = NotConverted

\* the conversion of _export_html on every content
SpecHtml == InitHtml /\ [][ConvertHtml]_vars

InitYaml == InitSearch /\ InitStore /\ InitAgent /\ InitExtract /\ InitCli /\ InitExport /\ settings = DefaultSettings /\ configFile \in YamlFiles /\ environ \in Envs /\ loaded = NotLoaded /\ model = NoModel

\* Settings.from_yaml on every config file in every environment
SpecYaml == InitYaml /\ [][FromYaml]_vars

InitModel == InitSearch /\ InitStore /\ InitAgent /\ InitExtract /\ InitCli /\ InitExport /\ settings \in ModelSettings /\ configFile = NoFile /\ environ = <<>> /\ loaded = NotLoaded /\ model = NoModel

\* _configure_model on every settings
SpecModel == InitModel /\ [][Configure]_vars

InitSwitches == InitSearch /\ InitStore /\ InitExtract /\ InitCli /\ InitExport /\ settings \in SwitchSettings /\ configFile = NoFile /\ environ = <<>> /\ loaded = NotLoaded /\ model = NoModel /\ exportFormat = FormatMarkdown /\ reports = <<>> /\ nRecords = 0 /\ out = NoResearch /\ bpc = "idle" /\ bqueries = <<>> /\ bsave = FALSE /\ bresults = <<>> /\ blog = <<>>

NextCachedSearch == \E a \in SearchArgs, o \in ApiOutcomes : Search(a, o)

\* the SearchTool of an agent constructed from settings with either value
\* of search_cache_enabled
SpecCachedSearch == InitSwitches /\ [][NextCachedSearch]_vars

NextAutoSave ==
    \/ \E q \in AgentQueries, o \in AgentOutcomes : Research(q, SaveResultsDefault, ExportReportDefault, o)
    \/ Tick

\* research(query) calls of an agent constructed from settings with either
\* value of storage_auto_save
SpecAutoSave == InitSwitches /\ [][NextAutoSave]_vars

InitCommand == InitSearch /\ InitStore /\ InitAgent /\ InitExtract /\ InitExport /\ settings = DefaultSettings /\ configFile = NoFile /\ environ \in CliEnvs /\ loaded = NotLoaded /\ model = NoModel /\ chat = NoChat /\ shown = NoConfig /\ cli \in {Command(q) : q \in CliQueries}

NextCommand ==
    \/ CliValidateKeys
    \/ \E answer \in CliAnswers : CliGetQuery(answer)
    \/ CliValidateQuery
    \/ \E outcome \in CallOutcomes : CliConstruct(outcome)
    \/ \E outcome \in CallOutcomes : CliResearch(outcome)

\* one run of the research command
SpecCommand == InitCommand /\ [][NextCommand]_vars

InitChat == InitSearch /\ InitStore /\ InitAgent /\ InitExtract /\ InitExport /\ settings = DefaultSettings /\ configFile = NoFile /\ environ \in CliEnvs /\ loaded = NotLoaded /\ model = NoModel /\ cli = NoCommand /\ shown = NoConfig /\ chat = ChatCommand

NextChat ==
    \/ ChatValidateKeys
    \/ \E outcome \in CallOutcomes : ChatConstruct(outcome)
    \/ \E input \in ChatInputs, outcome \in CallOutcomes : ChatTurn(input, outcome)

\* one run of the chat command
SpecChat == InitChat /\ [][NextChat]_vars

InitShown == InitSearch /\ InitStore /\ InitAgent /\ InitExtract /\ InitConfig /\ InitExport /\ cli = NoCommand /\ chat = NoChat /\ shown \in {ConfigCommand(k) : k \in KeySettings}

NextShown == \E outcome \in {"return", "raise"} : Config(outcome)

\* one run of the config command
SpecShown == InitShown /\ [][NextShown]_vars

InitLanguage == InitSearch /\ InitStore /\ InitAgent /\ InitExtract /\ InitExport /\ settings = DefaultSettings /\ configFile = NoFile /\ environ \in CliEnvs /\ loaded = NotLoaded /\ model = NoModel /\ chat = NoChat /\ shown = NoConfig /\ cli \in {CommandLang(q, o) : q \in LangQueries, o \in LangOptions}

\* one run of the research command with or without the --lang option
SpecLanguage == InitLanguage /\ [][NextCommand]_vars

---------------------------------------------------------------------------
(* Claims about the SearchTool *)

\* the argument tuples that agree with a on exactly three of the four arguments
Neighbours(a) == {b \in SearchArgs : Cardinality({f \in {"query", "max_results", "topic", "include_raw_content"} : a[f] # b[f]}) = 1}

C1_Served == (sret.op = "search" /\ sret.known) => (sret.calls = 0 /\ sret.sent = <<>> /\ sret.ret = sret.prior)

C1_Kept == (sret'.op = "search") => \A k \in DOMAIN cache : k \in DOMAIN cache' /\ cache'[k] = cache[k]

\* C1: once search has obtained a result from the API for an argument
\* tuple, every later search with the same four arguments returns that
\* result without calling the API, whatever searches came in between, as
\* long as clear_cache is not called; no search removes or replaces a cache
\* entry.
C1_MemoizedNoEviction == [](C1_Served) /\ [][C1_Kept]_vars

\* a search is served from the cache after two other results were cached and
\* a third API call was made in between
C1_Witness == sret.op = "search" /\ sret.known /\ sret.calls = 0 /\ Cardinality(DOMAIN cache) >= 2 /\ apiCalls >= 3

\* C2: the cache is keyed by all four arguments: a search is served from
\* the cache exactly when an earlier search with the same four arguments
\* obtained a result, and then it gets that tuple's result; a search whose
\* tuple differs from every earlier successful one calls the API and gets
\* what that call produced.
C2_KeyedByAllFour ==
    /\ \A a, b \in SearchArgs : (KeyOf(a) = KeyOf(b)) <=> (a = b)
    /\ sret.op = "search" =>
        /\ sret.hit <=> sret.known
        /\ sret.hit => sret.ret = sret.prior
        /\ ~sret.known => /\ sret.calls = 1
                          /\ sret.sent # <<>> /\ sret.sent[1].query = sret.args[1].query /\ sret.sent[1].topic = sret.args[1].topic
                          /\ sret.sent[1].include_raw_content = sret.args[1].include_raw_content
                          /\ sret.ret \in {sret.outcome[1].value, ErrorResult(sret.args[1].query, sret.outcome[1].error), ErrorResult(sret.args[1].query, "log error")}

\* a search misses although a tuple that differs from it in one argument only
\* is cached with another result
C2_Witness == sret.op = "search" /\ ~sret.hit /\ sret.calls = 1 /\ sret.ret.kind = "api" /\ \E b \in Neighbours(sret.args[1]) : b \in DOMAIN obtained /\ obtained[b] # sret.ret

\* C3: search never raises and never retries: a cache miss makes exactly one
\* API call, and when that call raises, search returns the dictionary with
\* the query, an empty results list and the error text.
C3_NoRaiseNoRetry ==
    sret.op = "search" =>
        /\ sret.ret.kind \in {"api", "error"}
        /\ ~sret.hit => sret.calls = 1
        /\ (~sret.hit /\ sret.outcome[1].raised) => sret.ret = [kind |-> "error", query |-> sret.args[1].query, results |-> <<>>, error |-> sret.outcome[1].error]

\* a search whose API call raised
C3_Witness == sret.op = "search" /\ ~sret.hit /\ sret.outcome[1].raised /\ sret.ret.kind = "error" /\ sret.calls = 1

C24_Emptied == sret.op = "clear" => (cache = <<>> /\ obtained = <<>>)

C24_CallsAgain == (sret.op = "search" /\ sret.args[1] \in sret.dropped /\ ~sret.known) => (~sret.hit /\ sret.calls = 1 /\ sret.sent # <<>>)

C24_Resumes ==
    /\ (sret.op = "search" /\ ~sret.hit /\ ~sret.outcome[1].raised) => (KeyOf(sret.args[1]) \in DOMAIN cache /\ cache[KeyOf(sret.args[1])] = sret.outcome[1].value)
    /\ (sret.op = "search" /\ sret.args[1] \in sret.dropped /\ sret.known) => (sret.hit /\ sret.calls = 0 /\ sret.ret = sret.prior)

\* C24: clear_cache empties the cache: after it, the first search for an
\* argument tuple calls the API again even when clear_cache removed an entry
\* for that tuple, and caching resumes: the result of that call is stored and
\* later searches with the same arguments are served from it.
C24_ClearThenCacheAgain == C24_Emptied /\ C24_CallsAgain /\ C24_Resumes

\* a tuple whose entry clear_cache removed was obtained from the API again
\* and is now served from the cache
C24_Witness == sret.op = "search" /\ sret.args[1] \in sret.dropped /\ sret.known /\ sret.hit /\ sret.calls = 0 /\ apiCalls >= 2

\* the last search missed the cache and its API call raised
Failed(r) == r.op = "search" /\ ~r.hit /\ r.outcome[1].raised

C25_NoErrorCached ==
    /\ \A k \in DOMAIN cache : cache[k].kind = "api"
    /\ (sret.op = "search" /\ sret.hit) => sret.ret.kind = "api"

C25_Step ==
    /\ Failed(sret') => cache' = cache
    /\ (Failed(sret) /\ sret'.op = "search" /\ sret'.args = sret.args) => (~sret'.hit /\ sret'.calls = 1)
    /\ (Failed(sret) /\ sret'.op = "search" /\ sret'.known) => (sret'.hit /\ sret'.calls = 0 /\ sret'.ret = sret'.prior)

\* C25: a search whose API call raised leaves the cache unchanged: no error
\* result is ever stored in the cache or served from it, the next search with
\* the same arguments calls the API again, and the tuples cached earlier are
\* still served from the cache.
C25_FailureLeavesCache == [](C25_NoErrorCached) /\ [][C25_Step]_vars

\* a search failed while an entry for other arguments is cached, and nothing
\* is cached for its own arguments
C25_Witness == Failed(sret) /\ sret.ret.kind = "error" /\ DOMAIN cache # {} /\ KeyOf(sret.args[1]) \notin DOMAIN cache

---------------------------------------------------------------------------
(* Claims about the ResearchAgent *)

Distinct(seq) == \A i, j \in 1..Len(seq) : i # j => seq[i] # seq[j]

\* C4: the storage directory holds one record file per research() call that
\* saved and returned, whatever the queries and the timing of the calls
\* (stated here for the calls of a batch of pairwise different queries).
C4_OneRecordPerCall == Distinct(bqueries) => Cardinality(DOMAIN Glob(files)) = nRecords

AiWithContent(msgs) == {i \in 1..Len(msgs) : msgs[i].type = "ai" /\ msgs[i].content # <<>>}

Last(S) == CHOOSE i \in S : \A j \in S : j <= i

\* C6: when the message list holds an AI message with non-empty content,
\* the response is the content of the last such message, whatever messages
\* come before or after it.
C6_LastAiContent == (epc = "done" /\ AiWithContent(messages) # {}) => response = messages[Last(AiWithContent(messages))].content

\* the call research() just returned from, in the step that made it
Returned == out'.seq # out.seq /\ out'.op = "research" /\ ~out'.raised

\* the step wrote exactly the file named name into the directory: fs -> gs
WroteOne(fs, gs, name, t) == name \in DOMAIN gs /\ gs[name].mtime = t /\ DOMAIN gs = DOMAIN fs \cup {name} /\ \A m \in DOMAIN fs \ {name} : gs[m] = fs[m]

\* the report file holds the response, in the way of the export format
ReportHolds(file, resp) ==
    /\ file.whole
    /\ CASE exportFormat = FormatMarkdown -> file.doc.content = resp
         [] exportFormat = FormatHtml -> file.doc.html_content = HtmlContent(resp)
         [] exportFormat = FormatJson -> Get(JsonLoad(file.doc), <<"c", "o", "n", "t", "e", "n", "t">>, PyNone) = PyStr(resp)

C7_Step ==
    Returned =>
        /\ {"query", "response"} \subseteq DOMAIN out'.ret
        /\ DOMAIN out'.ret \subseteq {"query", "response", "saved_path", "report_path"}
        /\ out'.ret["query"] = out'.query
        /\ ("saved_path" \in DOMAIN out'.ret) <=> out'.save
        /\ ("report_path" \in DOMAIN out'.ret) <=> out'.export
        /\ out'.save => \E n \in DOMAIN Glob(files') :
                            /\ out'.ret["saved_path"] = DataDir \o n
                            /\ WroteOne(Glob(files), Glob(files'), n, now)
                            /\ Get(LoadResearchCall(files', n), KeyQuery, PyNone) = PyStr(out'.query)
                            /\ Get(LoadResearchCall(files', n), KeyResults, PyNone) = PyStr(out'.ret["response"])
        /\ out'.export => \E n \in DOMAIN reports' :
                            /\ out'.ret["report_path"] = ReportDir \o n
                            /\ WroteOne(reports, reports', n, now)
                            /\ ReportHolds(reports'[n], out'.ret["response"])
        /\ ~out'.save => Glob(files') = Glob(files)
        /\ ~out'.export => reports' = reports

\* C7: the dictionary research() returns always holds the query and the
\* response; it holds saved_path exactly when save_results is true, and then
\* one record was written at that path; it holds report_path exactly when
\* export_report is true, and then one report was written at that path; with
\* both flags false neither a record nor a report is written.
C7_ResearchOutput == [][C7_Step]_vars

\* a research() call with both flags set returned both paths
C7_Witness == out.op = "research" /\ ~out.raised /\ out.save /\ out.export /\ DOMAIN out.ret = {"query", "response", "saved_path", "report_path"} /\ Cardinality(DOMAIN Glob(files)) = 1 /\ Cardinality(DOMAIN reports) = 1

\* C8: batch_research returns one result per query, in input order, each
\* with its query; a query whose research raised gives an entry with query
\* and error and no response, the queries after it are still processed,
\* batch_research does not raise, and no report is ever exported.
C8_BatchResults ==
    /\ reports = <<>>
    /\ bpc = "done" =>
        /\ out.op = "batch" /\ ~out.raised
        /\ Len(out.ret) = Len(bqueries)
        /\ Len(blog) = Len(bqueries)
        /\ \A i \in 1..Len(bqueries) :
              /\ out.ret[i]["query"] = bqueries[i]
              /\ blog[i] => DOMAIN out.ret[i] = {"query", "error"}
              /\ ~blog[i] => ("response" \in DOMAIN out.ret[i] /\ "error" \notin DOMAIN out.ret[i])
              /\ (~blog[i] /\ bsave) <=> ("saved_path" \in DOMAIN out.ret[i])

\* a batch of three queries returned, the second of which raised
C8_Witness == bpc = "done" /\ Len(out.ret) = 3 /\ blog = <<FALSE, TRUE, FALSE>> /\ bqueries[1] # bqueries[2] /\ "error" \in DOMAIN out.ret[2] /\ "response" \in DOMAIN out.ret[3]

---------------------------------------------------------------------------
(* Claims about the StorageManager *)

RECURSIVE JsonNative(_)
\* values built from str, int, None, lists and dicts with str keys only
JsonNative(x) ==
    CASE x.py \in {"str", "int", "None"} -> TRUE
      [] x.py = "list" -> \A i \in 1..Len(x.v) : JsonNative(x.v[i])
      [] x.py = "dict" -> \A k \in DOMAIN x.v : k.py = "str" /\ JsonNative(x.v[k])
      [] OTHER -> FALSE

\* load_research was just called on the file the latest save_research
\* returned, and that save did not raise
LoadedLastSave == sop.op = "load" /\ lastSave # <<>> /\ ~lastSave[1].raised /\ sop.arg = lastSave[1].name /\ sop.arg \in DOMAIN files

LoadedEqualsSaved ==
    /\ sop.ret.py = "dict"
    /\ Get(sop.ret, KeyQuery, PyNone) = PyStr(lastSave[1].query)
    /\ Get(sop.ret, KeyResults, PyNone) = lastSave[1].results
    /\ Get(sop.ret, KeyMetadata, PyNone) = (IF lastSave[1].metadata = PyNone THEN EmptyDict ELSE lastSave[1].metadata)

\* C5 as stated: for every query, JSON-serializable results and metadata,
\* loading the file a save returned yields the saved query, results and
\* metadata (the empty object when metadata is omitted).
C5_RoundTripAnySerializable == LoadedLastSave => LoadedEqualsSaved

\* C5: for every query and for results and metadata built from strings,
\* integers, None, lists and dicts with string keys, loading the file a save
\* returned yields the saved query, results and metadata (the empty object
\* when metadata is omitted), when no other save wrote the file in between.
C5_RoundTripJsonNative == (LoadedLastSave /\ JsonNative(lastSave[1].results) /\ JsonNative(lastSave[1].metadata)) => LoadedEqualsSaved

\* a nested list saved under a sanitised query without metadata is loaded back
C5_Witness == LoadedLastSave /\ lastSave[1].results.py = "list" /\ lastSave[1].metadata = PyNone /\ lastSave[1].query = QueryAqB /\ LoadedEqualsSaved

ReadableNames == {n \in DOMAIN Glob(files) : Readable(files, n)}

ListedNames == {sop.ret[i].filename : i \in 1..Len(sop.ret)}

\* C9: list_research() without a limit returns one entry for every file of
\* the directory that holds a JSON object and none for the others, each
\* with the file's name, path and the query of its record, ordered by
\* modification time, latest first, and does not raise.
C9_ListsEveryRecord ==
    (sop.op = "list" /\ sop.arg = None) =>
        /\ ~sop.raised
        /\ ListedNames = ReadableNames
        /\ Len(sop.ret) = Cardinality(ReadableNames)
        /\ \A i \in 1..Len(sop.ret) :
              /\ sop.ret[i].path = DataDir \o sop.ret[i].filename
              /\ sop.ret[i].query.py = "str"
              /\ sop.ret[i].filename = RecordName(Timestamp(Second(files[sop.ret[i].filename].mtime)), SafeName(sop.ret[i].query.v))
              /\ sop.ret[i].timestamp = PyStr(IsoFormat(files[sop.ret[i].filename].mtime))
        /\ \A i, j \in 1..Len(sop.ret) : i < j => files[sop.ret[i].filename].mtime >= files[sop.ret[j].filename].mtime

\* a listing of two records written at different times, with a third file
\* that cannot be parsed left out
C9_Witness ==
    /\ sop.op = "list" /\ sop.arg = None /\ Len(sop.ret) = 2
    /\ files[sop.ret[1].filename].mtime > files[sop.ret[2].filename].mtime
    /\ sop.ret[1].query # sop.ret[2].query
    /\ \E n \in DOMAIN files : ~Readable(files, n)

\* C10: for every integer limit n (here: every n >= 0, the limits a maximum
\* can be), list_research(n) returns at most n entries, and exactly the n
\* most recently modified records when at least n readable records exist.
C10_LimitIsMaximum ==
    (sop.op = "list" /\ sop.arg # None /\ sop.arg[1] >= 0) =>
        /\ Len(sop.ret) <= sop.arg[1]
        /\ Cardinality(ReadableNames) >= sop.arg[1] =>
              /\ Len(sop.ret) = sop.arg[1]
              /\ \A n \in ReadableNames : n \in ListedNames \/ \A m \in ListedNames : files[m].mtime >= files[n].mtime

---------------------------------------------------------------------------
(* Claims about the ReportExporter *)

\* the suffix the claim names for each format
C11_Suffix == [markdown |-> <<".", "m", "d">>, html |-> <<".", "h", "t", "m", "l">>, json |-> <<".", "j", "s", "o", "n">>]

\* a step of an export call without metadata: in SpecExport every step
\* that is no stuttering step is an export call whose arguments xop' holds
C11_Step ==
    xop'.metadata = PyNone =>
        IF xop'.format \in {"markdown", "html", "json"}
        THEN /\ ~xop'.raised
             /\ xop'.ret \in DOMAIN reports'
             /\ reports'[xop'.ret].whole
             /\ EndsWith(xop'.ret, C11_Suffix[xop'.format])
             /\ DOMAIN reports' = DOMAIN reports \cup {xop'.ret}
             /\ \A n \in DOMAIN reports \ {xop'.ret} : reports'[n] = reports[n]
        ELSE xop'.raised /\ reports' = reports

\* C11: export(content, title, format) writes exactly one file into the
\* output directory and returns its name, which ends in .md for MARKDOWN,
\* .html for HTML and .json for JSON, and leaves every other file as it
\* was; for any other format value it raises and writes no file.
C11_ExportWritesOneFile == [][C11_Step]_vars

\* an unsupported format was refused after a report of each format was written
C11_Witness == xop.op = "export" /\ xop.format = "pdf" /\ xop.raised /\ Cardinality(DOMAIN reports) = 3

\* the file the last export call wrote, parsed by json.load
C12_Parsed == JsonLoad(reports[xop.ret].doc)

C12_Exported == xop.op = "export" /\ xop.format = FormatJson

C12_Equal ==
    /\ ~xop.raised
    /\ reports[xop.ret].whole
    /\ C12_Parsed.py = "dict"
    /\ Get(C12_Parsed, <<"t", "i", "t", "l", "e">>, PyNone) = PyStr(xop.title)
    /\ Get(C12_Parsed, <<"c", "o", "n", "t", "e", "n", "t">>, PyNone) = PyStr(xop.content)
    /\ Get(C12_Parsed, <<"m", "e", "t", "a", "d", "a", "t", "a">>, PyNone) = (IF xop.metadata = PyNone THEN EmptyDict ELSE xop.metadata)

\* C12 as stated: for every content, title and metadata, parsing the file a
\* JSON export wrote yields the original title, the content and the
\* metadata (the empty object when metadata is omitted).
C12_RoundTripAnyMetadata == C12_Exported => C12_Equal

\* C12: for every content and title, and for metadata built from strings,
\* integers, None, lists and dicts with string keys, parsing the file a JSON
\* export wrote yields the original unsanitised title, the content and the
\* metadata (the empty object when metadata is omitted).
C12_RoundTripJsonNative == (C12_Exported /\ JsonNative(xop.metadata)) => C12_Equal

\* a report with a title that is sanitised for the file name, and metadata
C12_Witness == C12_Exported /\ xop.title = QueryAqB /\ xop.metadata = MetaLanguage /\ xop.content = ContentLines /\ C12_Equal

\* the lines of the converted content
C20_Lines == Split(html_content.text, <<"\n">>)

\* C20: in the converted content of an HTML export no literal ** is left,
\* and on every line each <strong> is matched by a </strong>.
C20_EmphasisComplete ==
    html_content.done =>
        /\ ~Contains(html_content.text, <<"*", "*">>)
        /\ \A i \in 1..Len(C20_Lines) : Cardinality(Occurrences(C20_Lines[i], <<"<", "s", "t", "r", "o", "n", "g", ">">>)) = Cardinality(Occurrences(C20_Lines[i], <<"<", "/", "s", "t", "r", "o", "n", "g", ">">>))

---------------------------------------------------------------------------
(* Claims about the Settings *)

\* the settings given both in the YAML file and as an environment variable
C13_GivenTwice == {field \in SettingsFields : field \in DOMAIN ConfigData(configFile) /\ EnvName[field] \in DOMAIN environ}

\* C13: for every setting given both in the YAML file and as an environment
\* variable, the Settings from_yaml returns holds the value of the
\* environment variable.
C13_EnvTakesPrecedence ==
    (loaded.done /\ ~loaded.raised) =>
        \A field \in C13_GivenTwice : loaded.settings[field] = Coerce(field, YamlStr(environ[EnvName[field]]))

\* C15: when search_cache_enabled is false, the search tool of the agent
\* serves no result from its cache: every search call reaches the API.
C15_DisabledCacheServesNothing == (~settings.search_cache_enabled /\ sret.op = "search") => (~sret.hit /\ sret.calls >= 1)

\* C16: when storage_auto_save is false, a research() call that does not
\* pass save_results writes no record to the storage directory.
C16_NoAutoSaveNoRecord == (~settings.storage_auto_save /\ out.op = "research") => (nRecords = 0 /\ DOMAIN Glob(files) = {})

C18_Set(key) == key # <<>> /\ key # <<"">>

\* C18: _configure_model builds the model with agent_api_key when it is
\* set; otherwise with the key of the selected provider and of no other
\* provider; for the openai and custom providers a key that resolves to
\* nothing is replaced by 'dummy'; a provider that is none of the four
\* raises.
C18_KeyResolution ==
    model.done =>
        /\ model.raised <=> settings.agent_provider \notin {"anthropic", "openai", "google", "custom"}
        /\ (~model.raised /\ C18_Set(settings.agent_api_key)) => model.api_key = settings.agent_api_key
        /\ (~model.raised /\ ~C18_Set(settings.agent_api_key)) =>
              /\ settings.agent_provider = "anthropic" => model.api_key = settings.anthropic_api_key
              /\ settings.agent_provider = "google" => model.api_key = settings.google_api_key
              /\ settings.agent_provider = "openai" => model.api_key = (IF C18_Set(settings.openai_api_key) THEN settings.openai_api_key ELSE <<"dummy">>)
              /\ settings.agent_provider = "custom" => model.api_key = <<"dummy">>

\* the openai provider without its key, while the keys of the other two
\* providers are set, is given the placeholder
C18_Witness ==
    /\ model.done /\ settings.agent_provider = "openai" /\ settings.agent_api_key = <<"">>
    /\ settings.openai_api_key = <<>> /\ settings.anthropic_api_key # <<>> /\ settings.google_api_key # <<>>
    /\ model.api_key = <<"dummy">>

---------------------------------------------------------------------------
(* Claims about the research command *)

C17_Count(call) == Cardinality({i \in 1..Len(cli.log) : cli.log[i] = call})

C17_KeysOk ==
    /\ "TAVILY_API_KEY" \in DOMAIN environ /\ environ["TAVILY_API_KEY"] # ""
    /\ \E n \in {"ANTHROPIC_API_KEY", "OPENAI_API_KEY", "GOOGLE_API_KEY", "AGENT_API_KEY"} : n \in DOMAIN environ /\ environ[n] # ""

\* the query the command holds, stripped, has between 3 and 500 characters
C17_QueryOk == cli.query # <<>> /\ Len(Strip(cli.query[1])) >= 3 /\ Len(Strip(cli.query[1])) <= 500

\* every call is made after the calls that come before it in the command
C17_InOrder ==
    \A i \in 1..Len(cli.log) :
        /\ cli.log[i] = "validate_api_keys" => i = 1
        /\ cli.log[i] \in {"prompt", "validate_query"} => cli.log[1] = "validate_api_keys"
        /\ cli.log[i] = "ResearchAgent" => (i > 1 /\ cli.log[i - 1] = "validate_query")
        /\ cli.log[i] = "research" => (i > 1 /\ cli.log[i - 1] = "ResearchAgent")

C17_Refused ==
    /\ (cli.pc = "exit" /\ ~C17_KeysOk) => (cli.exit = <<1>> /\ cli.log = <<"validate_api_keys">>)
    /\ (cli.pc = "exit" /\ C17_KeysOk /\ ~C17_QueryOk) => (cli.exit = <<1>> /\ C17_Count("ResearchAgent") = 0 /\ C17_Count("research") = 0)

\* C17 as stated: the command constructs an agent and calls research
\* exactly once when the key check succeeds and the query is valid, and
\* exits with code 1 without either call when a check fails.
C17_ValidatesThenResearches ==
    /\ C17_InOrder
    /\ C17_Refused
    /\ (cli.pc = "exit" /\ C17_KeysOk /\ C17_QueryOk) => (C17_Count("ResearchAgent") = 1 /\ C17_Count("research") = 1)

\* C17: the command calls the constructor of the agent exactly once when
\* the key check succeeds and the query is valid, and calls research
\* exactly once when the constructor returned and not at all when it
\* raised; it exits with code 1 without either call when a check fails, and
\* before the prompt when the key check fails.
C17_ValidatesThenActs ==
    /\ C17_InOrder
    /\ C17_Refused
    /\ (cli.pc = "exit" /\ C17_KeysOk /\ C17_QueryOk) => (C17_Count("ResearchAgent") = 1 /\ C17_Count("research") = (IF cli.agent = "built" THEN 1 ELSE 0))

\* a prompted query passed both checks and research returned
C17_Witness == cli.pc = "exit" /\ cli.exit = <<0>> /\ cli.log = <<"validate_api_keys", "prompt", "validate_query", "ResearchAgent", "research">>

\* the run has called the ResearchAgent constructor
Constructed == cli.language # None

C22_Explicit == (Constructed /\ cli.given # None) => cli.language = cli.given

C22_Switch == (Constructed /\ cli.language # Some(LangValue(cli.given))) => (cli.given = None /\ HasChinese(cli.query[1]) /\ cli.language = Some("zh"))

\* C22: Chinese is detected only when the language was not set: a run with
\* --lang en or --lang zh constructs the agent with that language, and the
\* agent gets zh in place of the option's value only when --lang was omitted
\* and the query has a character in U+4E00..U+9FFF.
C22_DetectsOnlyWhenOmitted == C22_Explicit /\ C22_Switch

---------------------------------------------------------------------------
(* Claims about delete_research and the response extraction *)

\* a step of delete_research(f): a step that is no stuttering step and
\* leaves a delete call in sop, which the clock does not
C14_Step ==
    (sop'.op = "delete" /\ (sop.op # "delete" \/ sop.arg # sop'.arg \/ sop.ret # sop'.ret \/ files' # files)) =>
        /\ ~sop'.raised
        /\ sop'.ret = (sop'.arg \in DOMAIN files)
        /\ LoadResearchCall(files', sop'.arg) = PyNone
        /\ \A order \in SortOrders(Glob(files')) : \A i \in 1..Len(ListResearchCall(files', order, None)) : ListResearchCall(files', order, None)[i].filename # sop'.arg
        /\ DOMAIN files' = DOMAIN files \ {sop'.arg}
        /\ \A n \in DOMAIN files' : files'[n] = files[n]

AiWithReasoning(msgs) == {i \in 1..Len(msgs) : msgs[i].type = "ai" /\ msgs[i].reasoning # <<>>}

\* C19: when no AI message has content, the response is the
\* reasoning_content of the last AI message that has one; when no AI
\* message has either, it is the content of the last message of the list;
\* for the empty list it is the empty string.
C19_Fallbacks ==
    epc = "done" =>
        /\ (AiWithContent(messages) = {} /\ AiWithReasoning(messages) # {}) => response = messages[Last(AiWithReasoning(messages))].reasoning
        /\ (AiWithContent(messages) = {} /\ AiWithReasoning(messages) = {} /\ messages # <<>>) => response = messages[Len(messages)].content
        /\ messages = <<>> => response = <<>>

\* two AI messages with different reasoning_content, followed by a tool message
C19_Witness ==
    /\ epc = "done" /\ Len(messages) = 3 /\ AiWithContent(messages) = {} /\ Cardinality(AiWithReasoning(messages)) = 2
    /\ messages[1].reasoning # messages[2].reasoning /\ messages[3].type = "tool" /\ response = messages[2].reasoning

---------------------------------------------------------------------------
(* Claims about the chat command and the config command *)

\* a key that is set and not empty
Configured(key) == key # None /\ key # Some(<<>>)

\* C21: the config command hides the API keys: the value displayed for a
\* configured key, whatever its length, does not contain the whole key, and
\* the value displayed for a key that is not set is 'Not set'.
C21_KeysHidden ==
    shown.data # <<>> =>
        \A f \in KeyFields :
            /\ Configured(shown.keys[f]) => ~Contains(shown.data[1][f], shown.keys[f][1])
            /\ shown.keys[f] = None => shown.data[1][f] = NotSet

\* the research calls of the last iteration
NewCalls == SubSeq(chat.calls, chat.before + 1, Len(chat.calls))

\* the text ends the session
Ends(text) == LowerStr(text) \in {<<"e", "x", "i", "t">>, <<"q", "u", "i", "t">>, <<"q">>}

\* the text is empty, asks for help, or is refused by validate_query
Stays(text) == text = <<>> \/ LowerStr(text) = <<"h", "e", "l", "p">> \/ (~Ends(text) /\ ~ValidateQuery(Some(text)))

C23_Input ==
    (chat.turns > 0 /\ chat.input.kind = "return") =>
        /\ Stays(chat.input.value) => (chat.pc = "prompt" /\ NewCalls = <<>>)
        /\ Ends(chat.input.value) => (chat.pc = "exit" /\ chat.exit = Some(0) /\ NewCalls = <<>>)
        /\ (~Stays(chat.input.value) /\ ~Ends(chat.input.value)) =>
               /\ NewCalls = <<[query |-> chat.input.value, save_results |-> TRUE, export_report |-> FALSE]>>
               /\ chat.outcome # "raise" => chat.pc = "prompt"

C23_Interrupt == (chat.turns > 0 /\ (chat.input.kind = "interrupt" \/ chat.outcome = "interrupt")) => (chat.pc = "prompt" /\ chat.exit = None)

C23_End == (chat.turns > 0 /\ chat.pc = "exit") => ((chat.input.kind = "return" /\ Ends(chat.input.value)) \/ chat.input.kind = "raise" \/ chat.outcome = "raise")

\* C23: every input of the chat loop is handled by one branch: an empty
\* input, help and a query that validate_query refuses go back to the prompt
\* without a research call; exit, quit and q in any case end the session
\* without a research call; any other input makes exactly one call
\* agent.research(query, save_results=True, export_report=False) and goes
\* back to the prompt unless the call raised; a KeyboardInterrupt in an
\* iteration goes back to the prompt; the session ends only on exit, quit, q
\* or on an exception other than KeyboardInterrupt.
C23_ChatProtocol == C23_Input /\ C23_Interrupt /\ C23_End

\* a question was researched in the first iteration and EXIT in upper case
\* ended the session in the second
C23_Witness == chat.pc = "exit" /\ chat.turns = 2 /\ chat.input.kind = "return" /\ chat.input.value = <<"E", "X", "I", "T">> /\ Len(chat.calls) = 1 /\ chat.before = 1 /\ chat.exit = Some(0)

====
